---- MODULE Spec2Model ----
(***************************************************************************)
(* muscle-mem: a trajectory cache with runtime-validated replay.           *)
(*                                                                         *)
(* The module models src/src/muscle_mem/chat.py (Engine, Replayer,         *)
(* CandidateSet, Recorder, RuntimeContext, ToolRegistry, DB) driven by the *)
(* environment of src/tests/test_caching.py: one receiver object holding a *)
(* counter `val`, one method-style tool `increment(self, n)` whose         *)
(* pre-check captures `val` and compares by equality.                      *)
(*                                                                         *)
(* Python values are integers.  None and the receiver object are two       *)
(* integers outside the range of the argument values.                      *)
(***************************************************************************)
EXTENDS Integers, Sequences, FiniteSets, TLC

VARIABLES
    env,          \* Env.val, the live state the pre-check observes
    clock,        \* time.time()
    storage,      \* DB._storage: key -> list of Trajectory
    tools,        \* ToolRegistry._tools: name -> Tool
    params,       \* RuntimeContext.params (ordered dict: sequence of <<key, value>>)
    method_dep,   \* RuntimeContext.method_dep
    recorder,     \* Engine._recorder: [present, steps]
    pc,           \* position inside Engine.__call__ ("idle" outside of it)
    call,         \* arguments of the running invocation: [skill, params]
    candidates,   \* Replayer.candidates.trajectories, as indices into storage[key]
    prefix,       \* Replayer.prefix
    exhausted,    \* Replayer.exhausted
    step,         \* the Step get_next_step returned, about to be executed
    result,       \* what the last invocation gave its caller
    hist,         \* history of the running / last invocation (observation only)
    rec,          \* per stored trajectory: how it was recorded (observation only)
    cfg,          \* the inputs the callers and the agent draw from (fixed by Init)
    pf            \* a component driven alone (strip/inject, sort_fn, DuckDB): its state

vars == <<env, clock, storage, tools, params, method_dep, recorder, pc, call,
          candidates, prefix, exhausted, step, result, hist, rec, cfg, pf>>

engineVars == <<env, clock, storage, tools, params, method_dep, recorder, pc, call,
                candidates, prefix, exhausted, step, result, hist, rec, cfg>>

(***************************************************************************)
(* Bounds                                                                  *)
(***************************************************************************)
MaxInvocations == 3
MaxAgentCalls == 2
MaxArg == 1
MaxReset == 1
MaxTime == 2
MaxLen == 2
MaxKwInvocations == 2
MaxRuns == 2
MaxAdds == 2
MaxSteps == 2
MaxDirectEnv == 2
\* inner invocations an agent makes in one behaviour
MaxNested == 1

(***************************************************************************)
(* Values                                                                  *)
(***************************************************************************)
None == -1
EnvObj == -2
NoneKey == "<None>"
NoSkill == "<None>"

Vals == 0..MaxArg
ParamNames == {"n", "m"}
Skills == {NoSkill, "", "skill1"}

RECURSIVE SeqsUpTo(_, _)
SeqsUpTo(S, n) ==
    IF n = 0 THEN {<<>>}
    ELSE LET shorter == SeqsUpTo(S, n - 1)
         IN  shorter \cup {Append(s, x) : s \in {t \in shorter : Len(t) = n - 1}, x \in S}

Range(s) == {s[i] : i \in 1..Len(s)}

(***************************************************************************)
(* Arg (chat.py 182-192)                                                   *)
(***************************************************************************)
\* Arg(kind=PARAM, key=k): __post_init__ raises when the key is None.
ParamArg(k) == [kind |-> "PARAM", key |-> k, value |-> None]
\* Arg(kind=STATIC, value=v): __post_init__ raises when the value is None.
StaticArg(v) == [kind |-> "STATIC", key |-> NoneKey, value |-> v]
ArgRaises(a) ==
    \/ a.kind = "PARAM" /\ a.key = NoneKey
    \/ a.kind = "STATIC" /\ a.value = None

(***************************************************************************)
(* RuntimeContext (chat.py 194-240)                                        *)
(***************************************************************************)
\* `v in self.params.values()`
InParams(ps, v) == \E i \in 1..Len(ps) : ps[i][2] = v
\* `next(k for k, val in self.params.items() if val == v)`
FirstKey(ps, v) ==
    LET i == CHOOSE j \in 1..Len(ps) :
                 /\ ps[j][2] = v
                 /\ \A h \in 1..(j - 1) : ps[h][2] # v
    IN  ps[i][1]
\* self.params[key], with KeyError when the key is missing
HasKey(ps, k) == \E i \in 1..Len(ps) : ps[i][1] = k
Lookup(ps, k) == ps[CHOOSE i \in 1..Len(ps) : ps[i][1] = k][2]

StripValue(ps, v) == IF InParams(ps, v) THEN ParamArg(FirstKey(ps, v)) ELSE StaticArg(v)

\* RuntimeContext.strip: the receiver is dropped whenever one is bound
strip(ps, dep, args, kwargs) ==
    LET args_list == IF dep # None THEN SubSeq(args, 2, Len(args)) ELSE args
        sargs   == [i \in 1..Len(args_list) |-> StripValue(ps, args_list[i])]
        skwargs == [i \in 1..Len(kwargs) |-> <<kwargs[i][1], StripValue(ps, kwargs[i][2])>>]
        raises  == \/ \E i \in 1..Len(sargs) : ArgRaises(sargs[i])
                   \/ \E i \in 1..Len(skwargs) : ArgRaises(skwargs[i][2])
    IN  IF raises
        THEN [ok |-> FALSE, err |-> "ValueError", args |-> <<>>, kwargs |-> <<>>]
        ELSE [ok |-> TRUE, err |-> "", args |-> sargs, kwargs |-> skwargs]

\* variant: a parameter reference is injected as its recorded (empty) literal
InjectValue_Static(ps, a) == a.value

InjectRaises(ps, a) == a.kind = "PARAM" /\ ~HasKey(ps, a.key)
InjectValue(ps, a) == IF a.kind = "PARAM" THEN Lookup(ps, a.key) ELSE a.value

\* RuntimeContext.inject: the receiver is prepended whenever one is bound
inject(ps, dep, args, kwargs) ==
    LET raises == \/ \E i \in 1..Len(args) : InjectRaises(ps, args[i])
                  \/ \E i \in 1..Len(kwargs) : InjectRaises(ps, kwargs[i][2])
        iargs   == [i \in 1..Len(args) |-> InjectValue(ps, args[i])]
        ikwargs == [i \in 1..Len(kwargs) |-> <<kwargs[i][1], InjectValue(ps, kwargs[i][2])>>]
    IN  IF raises
        THEN [ok |-> FALSE, err |-> "KeyError", args |-> <<>>, kwargs |-> <<>>]
        ELSE [ok |-> TRUE, err |-> "",
              args |-> IF dep # None THEN <<dep>> \o iargs ELSE iargs,
              kwargs |-> ikwargs]

(***************************************************************************)
(* The environment and tool of tests/test_caching.py                       *)
(***************************************************************************)
\* Env.capture(self, n): returns self.val
capture(e, args, kwargs) == e
\* Env.compare(current, candidate)
compare(current, candidate) == current = candidate
\* the value bound to increment's parameter n (default 1)
ArgN(args, kwargs) ==
    IF Len(args) >= 2 THEN args[2]
    ELSE IF \E i \in 1..Len(kwargs) : kwargs[i][1] = "n"
         THEN kwargs[CHOOSE i \in 1..Len(kwargs) : kwargs[i][1] = "n"][2]
         ELSE 1
\* Env.increment(self, n): self.val += n.  Implementation 2 stands for a
\* function of the same name registered later with a changed body.
ToolFunc(impl, e, args, kwargs) ==
    IF impl = 1 THEN e + ArgN(args, kwargs) ELSE e + ArgN(args, kwargs) + 1

(***************************************************************************)
(* DB (chat.py 135-148)                                                    *)
(***************************************************************************)
\* variant: every skill shares one key
Key_Shared(skill) == ""

Key(skill) == IF skill = NoSkill THEN "" ELSE skill
Keys == {Key(s) : s \in Skills}

\* variant: the counters of a new trajectory left at the dataclass defaults
NewTrajectory_Defaults(steps, now) ==
    [steps |-> steps, successful_runs |-> 0, failed_runs |-> 0, last_successful_run |-> now]

NewTrajectory(steps, now) ==
    [steps |-> steps, successful_runs |-> 1, failed_runs |-> 0, last_successful_run |-> now]

\* variant: the key's list is replaced by the new trajectory
add_trajectory_Replace(db, skill, steps, now) ==
    [db EXCEPT ![Key(skill)] = <<NewTrajectory(steps, now)>>]

add_trajectory(db, skill, steps, now) ==
    [db EXCEPT ![Key(skill)] = Append(@, NewTrajectory(steps, now))]

get_trajectories(db, skill) == db[Key(skill)]

(***************************************************************************)
(* CandidateSet (chat.py 257-277)                                          *)
(***************************************************************************)
Max(a, b) == IF a >= b THEN a ELSE b
\* variant: the ratio counts the failed runs
ScoreNum_Failed(t, now) == t.failed_runs * (now - t.last_successful_run)

\* sort_fn(t, now) = ratio * age, kept as the fraction ScoreNum / ScoreDen
ScoreNum(t, now) == t.successful_runs * (now - t.last_successful_run)
ScoreDen(t) == Max(1, t.successful_runs + t.failed_runs)
ScoreLess(a, b, now) == ScoreNum(a, now) * ScoreDen(b) < ScoreNum(b, now) * ScoreDen(a)

\* variant: the sort is ascending (reverse=True forgotten)
Before_Ascending(trajs, i, j, now) ==
    \/ ScoreLess(trajs[i], trajs[j], now)
    \/ ~ScoreLess(trajs[i], trajs[j], now) /\ ~ScoreLess(trajs[j], trajs[i], now) /\ i < j

\* list.sort(key=..., reverse=True) is stable: equal scores keep the store's order
Before(trajs, i, j, now) ==
    \/ ScoreLess(trajs[j], trajs[i], now)
    \/ ~ScoreLess(trajs[i], trajs[j], now) /\ ~ScoreLess(trajs[j], trajs[i], now) /\ i < j

CandidateSet(trajs, now) ==
    LET n == Len(trajs)
        Rank(i) == 1 + Cardinality({j \in 1..n : j # i /\ Before(trajs, j, i, now)})
    IN  [p \in 1..n |-> CHOOSE i \in 1..n : Rank(i) = p]

(***************************************************************************)
(* Replayer.get_next_step (chat.py 288-312)                                *)
(***************************************************************************)
\* variant: a failed check drops every candidate instead of the current one
remove_current_All(cands) == <<>>

\* CandidateSet.current / remove_current, on the ranked list
current(cands) == Head(cands)
remove_current(cands) == Tail(cands)

\* variant: the candidate counts as consumed one step early
FullyConsumed_Early(traj, k) == Len(traj.steps) = k + 1

\* line 295: the current candidate has no step left beyond the prefix
FullyConsumed(traj, k) == Len(traj.steps) = k

\* variant: no step is validated
NeedsCheck_Never(st, tool) == FALSE

\* line 302: the step is validated only when it carries a snapshot and the
\* registered tool has a pre-check
NeedsCheck(st, tool) == st.pre_check_snapshot # None /\ tool.pre_check

\* variant: the candidate is pruned when compare returns true
CheckFails_Inverted(st, args, kwargs, e) ==
    compare(capture(e, args, kwargs), st.pre_check_snapshot)

\* lines 305-307: capture on the live environment, compare with the snapshot
CheckFails(st, args, kwargs, e) ==
    ~compare(capture(e, args, kwargs), st.pre_check_snapshot)

\* One call of get_next_step on the candidate list `cands`: the candidates it
\* prunes on the way (`pruned`), the candidates it leaves, and how it ends.
RECURSIVE get_next_step(_, _, _, _, _, _, _, _)
get_next_step(trajs, cands, pruned, k, reg, ps, dep, e) ==
    IF cands = <<>>
    THEN [kind |-> "exhausted", cands |-> cands, pruned |-> pruned]
    ELSE LET traj == trajs[current(cands)] IN
         IF FullyConsumed(traj, k)
         THEN [kind |-> "complete", cands |-> cands, pruned |-> pruned]
         ELSE IF Len(traj.steps) < k + 1
         THEN [kind |-> "IndexError", cands |-> cands, pruned |-> pruned]
         ELSE LET st == traj.steps[k + 1]
                  tool == reg[st.func_name]
              IN  IF NeedsCheck(st, tool)
                  THEN LET inj == inject(ps, dep, st.args, st.kwargs) IN
                       IF ~inj.ok
                       THEN [kind |-> "KeyError", cands |-> cands, pruned |-> pruned]
                       ELSE IF CheckFails(st, inj.args, inj.kwargs, e)
                       THEN get_next_step(trajs, remove_current(cands),
                                          Append(pruned, current(cands)),
                                          k, reg, ps, dep, e)
                       ELSE [kind |-> "step", cands |-> cands, pruned |-> pruned]
                  ELSE [kind |-> "step", cands |-> cands, pruned |-> pruned]

\* variant: a pruned candidate is also taken out of the stored list
MarkFailed_Drop(trajs, pruned) ==
    SelectSeq([i \in 1..Len(trajs) |-> [trajs[i] EXCEPT !.failed_runs =
                                           IF i \in Range(pruned) THEN -1 ELSE @]],
              LAMBDA t : t.failed_runs >= 0)

\* traj.failed_runs += 1 for every pruned candidate
MarkFailed(trajs, pruned) ==
    [i \in 1..Len(trajs) |->
        IF i \in Range(pruned)
        THEN [trajs[i] EXCEPT !.failed_runs = @ + 1]
        ELSE trajs[i]]

\* variant: every stored trajectory of the key is marked successful
MarkSuccessful_All(trajs, i, now) ==
    [j \in 1..Len(trajs) |->
        [trajs[j] EXCEPT !.successful_runs = @ + 1, !.last_successful_run = now]]

\* traj.successful_runs += 1; traj.last_successful_run = time.time()
MarkSuccessful(trajs, i, now) ==
    [trajs EXCEPT ![i] = [@ EXCEPT !.successful_runs = @ + 1, !.last_successful_run = now]]

(***************************************************************************)
(* Engine (chat.py 315-398)                                                *)
(***************************************************************************)
NoStep == [func_name |-> "", args |-> <<>>, kwargs |-> <<>>, pre_check_snapshot |-> None]
NoCheck == [done |-> FALSE, current |-> None, snapshot |-> None, ok |-> FALSE, execs |-> 0,
            args |-> <<>>, kwargs |-> <<>>]

\* the `params` argument of Engine.__call__: None, or a dict
NoParams == [given |-> FALSE, dict |-> <<>>]
ParamArgsOf(names) ==
    {NoParams} \cup {[given |-> TRUE, dict |-> << <<k, v>> >>] : k \in names, v \in Vals}

NewHist(n, skill, e, db, reg) ==
    [n |-> n, key |-> Key(skill), startEnv |-> e, startStorage |-> db, startTools |-> reg,
     agentRuns |-> 0, agentCalls |-> <<>>, agentStart |-> None,
     executed |-> <<>>, lastCheck |-> NoCheck, pruned |-> <<>>, marked |-> 0, err |-> ""]

\* Engine.__init__ followed by the fixture of tests/test_caching.py:
\* the tool is registered, the receiver bound, the store empty.
EngineInit ==
    /\ env = 0
    /\ clock = 0
    /\ storage = [k \in Keys |-> <<>>]
    /\ tools = [name \in {"increment"} |-> [impl |-> 1, is_method |-> TRUE, pre_check |-> TRUE]]
    /\ params = <<>>
    /\ method_dep = EnvObj
    /\ recorder = [present |-> TRUE, steps |-> <<>>]
    /\ pc = "idle"
    /\ call = [skill |-> NoSkill, params |-> NoParams]
    /\ candidates = <<>>
    /\ prefix = <<>>
    /\ exhausted = FALSE
    /\ step = NoStep
    /\ result = "none"
    /\ hist = NewHist(0, NoSkill, 0, [k \in Keys |-> <<>>], tools)
    /\ rec = [k \in Keys |-> <<>>]

\* The caller prepares the environment as every test of test_caching.py does
\* (env.val = v), some time dt passes, and Engine.__call__ starts (lines
\* 371-380): params are overwritten only when truthy, then the Replayer is
\* built on the candidates of the key, ranked at the current time.
Invoke(v, dt, skill, parg) ==
    /\ pc = "idle"
    /\ hist.n < cfg.invocations
    /\ clock + dt <= MaxTime
    /\ env' = v
    /\ clock' = clock + dt
    /\ params' = IF parg.given /\ parg.dict # <<>> THEN parg.dict ELSE params
    /\ candidates' = CandidateSet(get_trajectories(storage, skill), clock')
    /\ prefix' = <<>>
    /\ exhausted' = FALSE
    /\ call' = [skill |-> skill, params |-> parg]
    /\ pc' = "replay"
    /\ result' = "none"
    /\ hist' = NewHist(hist.n + 1, skill, v, storage, tools)
    /\ UNCHANGED <<storage, tools, method_dep, recorder, step, rec, cfg, pf>>

Outcome ==
    get_next_step(storage[Key(call.skill)], candidates, <<>>, Len(prefix),
                  tools, params, method_dep, env)

Pruned(o) == [i \in 1..Len(o.pruned) |-> [traj |-> o.pruned[i], k |-> Len(prefix)]]

\* variant: the agent is called when the Replayer is not exhausted
AfterLoop_Inverted(ex) ==
    IF ~ex
    THEN /\ recorder' = [present |-> TRUE, steps |-> <<>>]
         /\ pc' = "agent"
         /\ result' = result
    ELSE /\ recorder' = recorder
         /\ pc' = "idle"
         /\ result' = "hit"

\* variant: the fallback records into the Recorder that is already there
AfterLoop_KeepRecorder(ex) ==
    IF ex
    THEN /\ recorder' = [recorder EXCEPT !.present = TRUE]
         /\ pc' = "agent"
         /\ result' = result
    ELSE /\ recorder' = recorder
         /\ pc' = "idle"
         /\ result' = "hit"

\* Engine.__call__ after the replay loop (lines 387-398): when the Replayer is
\* exhausted, a fresh Recorder is started and the agent is called; otherwise
\* the invocation returns True.
AfterLoop(ex) ==
    IF ex
    THEN /\ recorder' = [present |-> TRUE, steps |-> <<>>]
         /\ pc' = "agent"
         /\ result' = result
    ELSE /\ recorder' = recorder
         /\ pc' = "idle"
         /\ result' = "hit"

\* observation: the agent is being called, from the current environment
ObserveAgent(h) ==
    IF pc' = "agent" THEN [h EXCEPT !.agentRuns = @ + 1, !.agentStart = env] ELSE h

\* One call of get_next_step from the Engine's loop (lines 382, 288-312).
\* Candidates pruned on the way have failed_runs incremented, whatever the end:
\*   a step is returned: it is appended to the prefix, the Engine executes it next;
\*   the current candidate is fully consumed: it is marked successful, the loop
\*     ends with exhausted false and the invocation returns True (lines 396-398);
\*   no candidate is left: exhausted is set, the loop ends, and the Engine starts
\*     a fresh Recorder and calls the agent (lines 387-392);
\*   inject raises KeyError or steps[k] raises IndexError: the error leaves
\*     Engine.__call__.
GetNextStep ==
    /\ pc = "replay"
    /\ LET o == Outcome
           key == Key(call.skill)
           failed == MarkFailed(storage[key], o.pruned)
           st == storage[key][Head(o.cands)].steps[Len(prefix) + 1]
           checked == NeedsCheck(st, tools[st.func_name])
           inj == inject(params, method_dep, st.args, st.kwargs)
           captured == IF inj.ok THEN capture(env, inj.args, inj.kwargs) ELSE None
           h == [hist EXCEPT !.pruned = @ \o Pruned(o)]
       IN  /\ candidates' = o.cands
           /\ CASE o.kind = "step" ->
                    /\ storage' = [storage EXCEPT ![key] = failed]
                    /\ prefix' = Append(prefix, st)
                    /\ step' = st
                    /\ hist' = [h EXCEPT !.lastCheck =
                                  [done |-> checked,
                                   current |-> captured,
                                   snapshot |-> st.pre_check_snapshot,
                                   ok |-> inj.ok /\ compare(captured, st.pre_check_snapshot),
                                   execs |-> Len(hist.executed),
                                   args |-> inj.args, kwargs |-> inj.kwargs]]
                    /\ pc' = "exec"
                    /\ UNCHANGED <<exhausted, recorder, result>>
                [] o.kind = "complete" ->
                    /\ storage' = [storage EXCEPT
                                     ![key] = MarkSuccessful(failed, Head(o.cands), clock)]
                    /\ exhausted' = FALSE
                    /\ AfterLoop(exhausted')
                    /\ hist' = ObserveAgent([h EXCEPT !.marked = Head(o.cands)])
                    /\ UNCHANGED <<prefix, step>>
                [] o.kind = "exhausted" ->
                    /\ storage' = [storage EXCEPT ![key] = failed]
                    /\ exhausted' = TRUE
                    /\ AfterLoop(exhausted')
                    /\ hist' = ObserveAgent(h)
                    /\ UNCHANGED <<prefix, step>>
                [] OTHER ->
                    /\ storage' = [storage EXCEPT ![key] = failed]
                    /\ hist' = [h EXCEPT !.err = o.kind]
                    /\ pc' = "idle"
                    /\ result' = "raised"
                    /\ UNCHANGED <<prefix, step, exhausted, recorder>>
    /\ UNCHANGED <<env, clock, tools, params, method_dep, call, rec, cfg, pf>>

\* Engine.__call__, lines 383-385: the step's tool is executed for real.
ExecStep ==
    /\ pc = "exec"
    /\ LET tool == tools[step.func_name]
           inj == inject(params, method_dep, step.args, step.kwargs)
       IN  IF inj.ok
           THEN /\ env' = ToolFunc(tool.impl, env, inj.args, inj.kwargs)
                /\ pc' = "replay"
                /\ result' = result
                /\ hist' = [hist EXCEPT !.executed = Append(@,
                              [owner |-> Head(candidates), pos |-> Len(prefix),
                               func_name |-> step.func_name,
                               args |-> inj.args, kwargs |-> inj.kwargs,
                               pre |-> env, post |-> env', check |-> hist.lastCheck])]
           ELSE /\ env' = env
                /\ pc' = "idle"
                /\ result' = "raised"
                /\ hist' = [hist EXCEPT !.err = inj.err]
    /\ step' = NoStep
    /\ UNCHANGED <<clock, storage, tools, params, method_dep, recorder, call,
                   candidates, prefix, exhausted, rec, cfg, pf>>

\* The agent calls the tool through its wrapper (lines 362-367): snapshot, then
\* the real call, then the Recorder strips the arguments and appends a Step.
AgentToolCall(v, kw) ==
    /\ pc = "agent"
    /\ Len(hist.agentCalls) < MaxAgentCalls
    /\ LET tool == tools["increment"]
           args == IF kw THEN <<EnvObj>> ELSE <<EnvObj, v>>
           kwargs == IF kw THEN << <<"n", v>> >> ELSE <<>>
           pre_snap == IF tool.pre_check THEN capture(env, args, kwargs) ELSE None
           st == strip(params, method_dep, args, kwargs)
           records == recorder.present /\ tool.pre_check
       IN  /\ env' = ToolFunc(tool.impl, env, args, kwargs)
           /\ hist' = [hist EXCEPT !.agentCalls = Append(@,
                          [func_name |-> "increment", args |-> args, kwargs |-> kwargs])]
           /\ IF records /\ ~st.ok
              THEN /\ pc' = "idle"
                   /\ result' = "raised"
                   /\ recorder' = recorder
              ELSE /\ pc' = pc
                   /\ result' = result
                   /\ recorder' = IF records
                                  THEN [recorder EXCEPT !.steps = Append(@,
                                          [func_name |-> "increment", args |-> st.args,
                                           kwargs |-> st.kwargs,
                                           pre_check_snapshot |-> pre_snap])]
                                  ELSE recorder
    /\ UNCHANGED <<clock, storage, tools, params, method_dep, call, candidates,
                   prefix, exhausted, step, rec, cfg, pf>>

\* The agent returns (lines 393-395): the recorded steps are stored under the
\* key, the Recorder is deleted and the invocation returns False (miss).
AgentReturn ==
    /\ pc = "agent"
    /\ storage' = add_trajectory(storage, call.skill, recorder.steps, clock)
    /\ rec' = [rec EXCEPT ![Key(call.skill)] = Append(@,
                 [skill |-> call.skill, start |-> hist.agentStart, end |-> env,
                  calls |-> hist.agentCalls, params |-> params,
                  impl |-> tools["increment"].impl])]
    /\ recorder' = [present |-> FALSE, steps |-> <<>>]
    /\ pc' = "idle"
    /\ result' = "miss"
    /\ UNCHANGED <<env, clock, tools, params, method_dep, call, candidates, prefix,
                   exhausted, step, hist, cfg, pf>>

PfIdle == [stage |-> "off"]

Init ==
    /\ EngineInit
    /\ cfg = [skills |-> {NoSkill}, pargs |-> ParamArgsOf({"n"}), kw |-> {FALSE},
              vals |-> Vals, invocations |-> MaxInvocations]
    /\ pf = PfIdle

Next ==
    \/ \E v \in 0..MaxReset, dt \in 0..1, s \in cfg.skills, p \in cfg.pargs :
          Invoke(v, dt, s, p)
    \/ GetNextStep
    \/ ExecStep
    \/ \E v \in cfg.vals, kw \in cfg.kw : AgentToolCall(v, kw)
    \/ AgentReturn

Spec == Init /\ [][Next]_vars

\* Engine.__call__ runs to its end once started: the loop of lines 382-385
\* keeps calling get_next_step and executing the step it returns.
SpecLive == Spec /\ WF_vars(GetNextStep) /\ WF_vars(ExecStep)

(***************************************************************************)
(* Re-registration (chat.py 358-360, 167-171)                              *)
(***************************************************************************)
\* Between invocations the decorator is applied to a function of the same
\* name with a changed body: add_tool overwrites the registry entry.
ReRegister ==
    /\ pc = "idle"
    /\ tools["increment"].impl = 1
    /\ tools' = [tools EXCEPT !["increment"] = [impl |-> 2, is_method |-> TRUE,
                                                 pre_check |-> TRUE]]
    /\ UNCHANGED <<env, clock, storage, params, method_dep, recorder, pc, call,
                   candidates, prefix, exhausted, step, result, hist, rec, cfg, pf>>

InitDrift ==
    /\ EngineInit
    /\ cfg = [skills |-> {NoSkill}, pargs |-> {NoParams}, kw |-> {FALSE},
              vals |-> {1}, invocations |-> MaxInvocations]
    /\ pf = PfIdle

NextDrift ==
    \/ \E v \in 0..MaxReset, dt \in 0..1, s \in cfg.skills, p \in cfg.pargs :
          Invoke(v, dt, s, p)
    \/ GetNextStep
    \/ ExecStep
    \/ \E v \in cfg.vals, kw \in cfg.kw : AgentToolCall(v, kw)
    \/ AgentReturn
    \/ ReRegister

SpecDrift == InitDrift /\ [][NextDrift]_vars

(***************************************************************************)
(* Invocations under several skills (tests/test_caching.py 123-141)        *)
(***************************************************************************)
InitSkills ==
    /\ EngineInit
    /\ cfg = [skills |-> Skills, pargs |-> {NoParams}, kw |-> {FALSE},
              vals |-> {1}, invocations |-> MaxInvocations]
    /\ pf = PfIdle

SpecSkills == InitSkills /\ [][Next]_vars

(***************************************************************************)
(* Positional and keyword calls under changing params                      *)
(* (tests/test_caching.py 143-152)                                         *)
(***************************************************************************)
InitKw ==
    /\ EngineInit
    /\ cfg = [skills |-> {NoSkill}, pargs |-> ParamArgsOf({"n"}), kw |-> BOOLEAN,
              vals |-> Vals, invocations |-> MaxKwInvocations]
    /\ pf = PfIdle

SpecKw == InitKw /\ [][Next]_vars

(***************************************************************************)
(* Invocations under params of different names                             *)
(***************************************************************************)
InitKeys ==
    /\ EngineInit
    /\ cfg = [skills |-> {NoSkill},
              pargs |-> {NoParams} \cup
                        {[given |-> TRUE, dict |-> << <<k, 1>> >>] : k \in ParamNames},
              kw |-> {FALSE}, vals |-> {1}, invocations |-> MaxInvocations]
    /\ pf = PfIdle

SpecKeys == InitKeys /\ [][Next]_vars

(***************************************************************************)
(* strip and inject alone (chat.py 203-240)                                *)
(***************************************************************************)
\* argument values: the tool's integers and None
PVals == Vals \cup {None}
\* params dicts: at most one value per key, in insertion order
ParamDicts ==
    {ps \in SeqsUpTo(ParamNames \X PVals, Cardinality(ParamNames)) :
        \A i, j \in 1..Len(ps) : i # j => ps[i][1] # ps[j][1]}
KwargDicts == SeqsUpTo(ParamNames \X PVals, 1)

\* A tool call: a method-style call passes the receiver first.
InitParam ==
    /\ EngineInit
    /\ cfg = [skills |-> {NoSkill}, pargs |-> {NoParams}, kw |-> {FALSE},
              vals |-> {1}, invocations |-> 0]
    /\ \E ps \in ParamDicts, dep \in {None, EnvObj}, is_method \in BOOLEAN,
          a \in SeqsUpTo(PVals, MaxLen), kw \in KwargDicts :
          pf = [stage |-> "call", params |-> ps, method_dep |-> dep,
                is_method |-> is_method,
                args |-> IF is_method THEN <<EnvObj>> \o a ELSE a, kwargs |-> kw,
                sargs |-> <<>>, skwargs |-> <<>>, out_args |-> <<>>, out_kwargs |-> <<>>,
                err |-> ""]

\* Recorder.record (chat.py 249-254): the call's arguments are stripped
PStrip ==
    /\ pf.stage = "call"
    /\ LET st == strip(pf.params, pf.method_dep, pf.args, pf.kwargs)
       IN  pf' = IF st.ok
                 THEN [pf EXCEPT !.stage = "stripped", !.sargs = st.args,
                                 !.skwargs = st.kwargs]
                 ELSE [pf EXCEPT !.stage = "raised", !.err = st.err]
    /\ UNCHANGED engineVars

\* Replayer.get_next_step / Engine.__call__ (chat.py 304, 384): the stored
\* Args are injected under the same RuntimeContext
PInject ==
    /\ pf.stage = "stripped"
    /\ LET inj == inject(pf.params, pf.method_dep, pf.sargs, pf.skwargs)
       IN  pf' = IF inj.ok
                 THEN [pf EXCEPT !.stage = "injected", !.out_args = inj.args,
                                 !.out_kwargs = inj.kwargs]
                 ELSE [pf EXCEPT !.stage = "raised", !.err = inj.err]
    /\ UNCHANGED engineVars

NextParam == PStrip \/ PInject

SpecParam == InitParam /\ [][NextParam]_vars

(***************************************************************************)
(* sort_fn alone (chat.py 263-267)                                         *)
(***************************************************************************)
\* counters of a Trajectory (the dataclass defaults are 0) and the time of
\* its last success, which is not later than the time of the ranking
Counters ==
    [successful_runs : 0..MaxRuns, failed_runs : 0..MaxRuns,
     last_successful_run : 0..MaxTime]

InitScore ==
    /\ EngineInit
    /\ cfg = [skills |-> {NoSkill}, pargs |-> {NoParams}, kw |-> {FALSE},
              vals |-> {1}, invocations |-> 0]
    /\ \E a \in Counters, b \in Counters, now \in 0..MaxTime :
          /\ a.last_successful_run <= now
          /\ b.last_successful_run <= now
          /\ pf = [stage |-> "rank", a |-> a, b |-> b, now |-> now, a_first |-> FALSE,
                   a_at_least |-> FALSE]

\* CandidateSet.__init__ on the list [a, b]: which one is first after the
\* sort, and whether a's key is at least b's
PScore ==
    /\ pf.stage = "rank"
    /\ pf' = [pf EXCEPT !.stage = "ranked",
                        !.a_first = (CandidateSet(<<pf.a, pf.b>>, pf.now) = <<1, 2>>),
                        !.a_at_least = ~ScoreLess(pf.a, pf.b, pf.now)]
    /\ UNCHANGED engineVars

NextScore == PScore

SpecScore == InitScore /\ [][NextScore]_vars

(***************************************************************************)
(* Engines set up differently (chat.py 340-350)                            *)
(***************************************************************************)
\* The fixture without engine.bind_instance(env): the method-style tool is
\* registered and the agent set, RuntimeContext.method_dep keeps its default.
\* finalize (348-350) only sets the flag, so the first invocation goes on.
InitUnbound ==
    /\ env = 0
    /\ clock = 0
    /\ storage = [k \in Keys |-> <<>>]
    /\ tools = [name \in {"increment"} |-> [impl |-> 1, is_method |-> TRUE, pre_check |-> TRUE]]
    /\ params = <<>>
    /\ method_dep = None
    /\ recorder = [present |-> TRUE, steps |-> <<>>]
    /\ pc = "idle"
    /\ call = [skill |-> NoSkill, params |-> NoParams]
    /\ candidates = <<>>
    /\ prefix = <<>>
    /\ exhausted = FALSE
    /\ step = NoStep
    /\ result = "none"
    /\ hist = NewHist(0, NoSkill, 0, [k \in Keys |-> <<>>], tools)
    /\ rec = [k \in Keys |-> <<>>]
    /\ cfg = [skills |-> {NoSkill}, pargs |-> ParamArgsOf({"n"}), kw |-> BOOLEAN,
              vals |-> {1}, invocations |-> MaxKwInvocations]
    /\ pf = PfIdle

SpecUnbound == InitUnbound /\ [][Next]_vars

\* The fixture without engine.set_agent(agent): self.agent keeps the None of
\* Engine.__init__ (line 320).  Nothing is ever stored, so the loop of
\* __call__ never gets a step; on the miss path line 392 calls None, which
\* raises TypeError after the Recorder of line 390 was created and before
\* lines 393-394 (no add_trajectory, no `del self._recorder`).
AgentMissing ==
    /\ pc = "agent"
    /\ pc' = "idle"
    /\ result' = "raised"
    /\ hist' = [hist EXCEPT !.err = "TypeError"]
    /\ UNCHANGED <<env, clock, storage, tools, params, method_dep, recorder, call,
                   candidates, prefix, exhausted, step, rec, cfg, pf>>

InitNoAgent ==
    /\ EngineInit
    /\ cfg = [skills |-> Skills, pargs |-> ParamArgsOf(ParamNames), kw |-> {FALSE},
              vals |-> {1}, invocations |-> MaxInvocations]
    /\ pf = PfIdle

NextNoAgent ==
    \/ \E v \in 0..MaxReset, dt \in 0..1, s \in cfg.skills, p \in cfg.pargs :
          Invoke(v, dt, s, p)
    \/ GetNextStep
    \/ AgentMissing

SpecNoAgent == InitNoAgent /\ [][NextNoAgent]_vars

\* variant: the steps recorded so far are stored before the error leaves
AgentRaise_Persists ==
    /\ pc = "agent"
    /\ storage' = add_trajectory(storage, call.skill, recorder.steps, clock)
    /\ pc' = "idle"
    /\ result' = "raised"
    /\ hist' = [hist EXCEPT !.err = "AgentError"]
    /\ UNCHANGED <<env, clock, tools, params, method_dep, recorder, call,
                   candidates, prefix, exhausted, step, rec, cfg, pf>>

\* The agent raises during the fallback, after any number of tool calls: the
\* exception leaves self.agent(...) at line 392 and Engine.__call__ with it,
\* so lines 393-395 do not run: nothing is stored and the Recorder, with the
\* steps recorded so far, is not deleted.
AgentRaise ==
    /\ pc = "agent"
    /\ pc' = "idle"
    /\ result' = "raised"
    /\ hist' = [hist EXCEPT !.err = "AgentError"]
    /\ UNCHANGED <<env, clock, storage, tools, params, method_dep, recorder, call,
                   candidates, prefix, exhausted, step, rec, cfg, pf>>

InitRaise ==
    /\ EngineInit
    /\ cfg = [skills |-> {NoSkill, "skill1"}, pargs |-> {NoParams}, kw |-> {FALSE},
              vals |-> {1}, invocations |-> MaxInvocations]
    /\ pf = PfIdle

NextRaise ==
    \/ Next
    \/ AgentRaise

SpecRaise == InitRaise /\ [][NextRaise]_vars

\* The fixture with the tool registered by @engine.method(pre_check=...) or
\* by @engine.method(): pre_check defaults to None (line 355).
InitChecks ==
    /\ env = 0
    /\ clock = 0
    /\ storage = [k \in Keys |-> <<>>]
    /\ tools \in {[name \in {"increment"} |-> [impl |-> 1, is_method |-> TRUE, pre_check |-> c]] :
                     c \in BOOLEAN}
    /\ params = <<>>
    /\ method_dep = EnvObj
    /\ recorder = [present |-> TRUE, steps |-> <<>>]
    /\ pc = "idle"
    /\ call = [skill |-> NoSkill, params |-> NoParams]
    /\ candidates = <<>>
    /\ prefix = <<>>
    /\ exhausted = FALSE
    /\ step = NoStep
    /\ result = "none"
    /\ hist = NewHist(0, NoSkill, 0, [k \in Keys |-> <<>>], tools)
    /\ rec = [k \in Keys |-> <<>>]
    /\ cfg = [skills |-> {NoSkill}, pargs |-> ParamArgsOf({"n"}), kw |-> {FALSE},
              vals |-> Vals, invocations |-> MaxInvocations]
    /\ pf = PfIdle

SpecChecks == InitChecks /\ [][Next]_vars

\* A Check whose capture returns None for the state it is called in (Check
\* takes any callable, chat.py 150-154; e.g. a capture that reads a field not
\* set yet).
capture_none(e, args, kwargs) == None

\* The agent calls the tool through its wrapper (lines 362-367) in a state
\* where the capture returns None: the Step is recorded with that snapshot.
AgentToolCallNone(v) ==
    /\ pc = "agent"
    /\ Len(hist.agentCalls) < MaxAgentCalls
    /\ LET tool == tools["increment"]
           args == <<EnvObj, v>>
           kwargs == <<>>
           pre_snap == IF tool.pre_check THEN capture_none(env, args, kwargs) ELSE None
           st == strip(params, method_dep, args, kwargs)
           records == recorder.present /\ tool.pre_check
       IN  /\ env' = ToolFunc(tool.impl, env, args, kwargs)
           /\ hist' = [hist EXCEPT !.agentCalls = Append(@,
                          [func_name |-> "increment", args |-> args, kwargs |-> kwargs])]
           /\ IF records /\ ~st.ok
              THEN /\ pc' = "idle"
                   /\ result' = "raised"
                   /\ recorder' = recorder
              ELSE /\ pc' = pc
                   /\ result' = result
                   /\ recorder' = IF records
                                  THEN [recorder EXCEPT !.steps = Append(@,
                                          [func_name |-> "increment", args |-> st.args,
                                           kwargs |-> st.kwargs,
                                           pre_check_snapshot |-> pre_snap])]
                                  ELSE recorder
    /\ UNCHANGED <<clock, storage, tools, params, method_dep, call, candidates,
                   prefix, exhausted, step, rec, cfg, pf>>

InitNone ==
    /\ EngineInit
    /\ cfg = [skills |-> {NoSkill}, pargs |-> {NoParams}, kw |-> {FALSE},
              vals |-> {1}, invocations |-> MaxInvocations]
    /\ pf = PfIdle

NextNone ==
    \/ Next
    \/ \E v \in cfg.vals : AgentToolCallNone(v)

SpecNone == InitNone /\ [][NextNone]_vars

\* The wrapped tool is called directly, outside any invocation (lines
\* 362-367): the call runs, and is handed to the Recorder when the Engine has
\* one, which is the case before the first miss (the Recorder of __init__,
\* line 327) and after an agent that raised (no `del`, line 394 not reached).
DirectToolCall(v) ==
    /\ pc = "idle"
    /\ env < MaxDirectEnv
    /\ Len(recorder.steps) < MaxAgentCalls
    /\ LET tool == tools["increment"]
           args == <<EnvObj, v>>
           kwargs == <<>>
           pre_snap == IF tool.pre_check THEN capture(env, args, kwargs) ELSE None
           st == strip(params, method_dep, args, kwargs)
           records == recorder.present /\ tool.pre_check
       IN  /\ env' = ToolFunc(tool.impl, env, args, kwargs)
           /\ recorder' = IF records /\ st.ok
                          THEN [recorder EXCEPT !.steps = Append(@,
                                  [func_name |-> "increment", args |-> st.args,
                                   kwargs |-> st.kwargs,
                                   pre_check_snapshot |-> pre_snap])]
                          ELSE recorder
    /\ UNCHANGED <<clock, storage, tools, params, method_dep, pc, call, candidates,
                   prefix, exhausted, step, result, hist, rec, cfg, pf>>

InitDirect ==
    /\ EngineInit
    /\ cfg = [skills |-> {NoSkill}, pargs |-> ParamArgsOf({"n"}), kw |-> {FALSE},
              vals |-> Vals, invocations |-> MaxInvocations]
    /\ pf = PfIdle

NextDirect ==
    \/ Next
    \/ AgentRaise
    \/ \E v \in cfg.vals : DirectToolCall(v)

SpecDirect == InitDirect /\ [][NextDirect]_vars

(***************************************************************************)
(* An agent that invokes the Engine again (chat.py 371-395): the Engine    *)
(* keeps one _recorder attribute and one RuntimeContext for all            *)
(* invocations, and takes no lock.  pf holds the suspended outer call.     *)
(***************************************************************************)
Frame ==
    [call |-> call, candidates |-> candidates, prefix |-> prefix,
     exhausted |-> exhausted, step |-> step, result |-> result, hist |-> hist,
     params |-> params, recorder |-> recorder]

\* line 392 reached inside self.agent of an outer invocation: the agent calls
\* the Engine, whose __call__ starts again on the same object (lines 371-380)
NestedInvoke(skill, parg) ==
    /\ pc = "agent"
    /\ pf.depth = 0
    /\ pf.count < MaxNested
    /\ params' = IF parg.given /\ parg.dict # <<>> THEN parg.dict ELSE params
    /\ candidates' = CandidateSet(get_trajectories(storage, skill), clock)
    /\ prefix' = <<>>
    /\ exhausted' = FALSE
    /\ call' = [skill |-> skill, params |-> parg]
    /\ pc' = "replay"
    /\ result' = "none"
    /\ hist' = NewHist(hist.n + 1, skill, env, storage, tools)
    /\ pf' = [pf EXCEPT !.depth = 1, !.count = @ + 1, !.outer = Frame]
    /\ UNCHANGED <<env, clock, storage, tools, method_dep, recorder, step, rec, cfg>>

\* the inner __call__ returns into the outer agent; an error it raised leaves
\* the agent and the outer __call__ as well.  The Engine's attributes stay as
\* the inner call left them.
NestedReturn ==
    /\ pc = "idle"
    /\ pf.depth = 1
    /\ pf' = [pf EXCEPT !.depth = 0, !.inner = [result |-> result, hist |-> hist]]
    /\ call' = pf.outer.call
    /\ candidates' = pf.outer.candidates
    /\ prefix' = pf.outer.prefix
    /\ exhausted' = pf.outer.exhausted
    /\ step' = pf.outer.step
    /\ IF result = "raised"
       THEN /\ pc' = "idle"
            /\ result' = "raised"
            /\ hist' = [pf.outer.hist EXCEPT !.err = hist.err]
       ELSE /\ pc' = "agent"
            /\ result' = pf.outer.result
            /\ hist' = pf.outer.hist
    /\ UNCHANGED <<env, clock, storage, tools, params, method_dep, recorder, rec, cfg>>

\* line 393 when the attribute was deleted by an inner call (line 394):
\* self._recorder raises AttributeError, nothing is stored
AgentReturnUnrecorded ==
    /\ pc = "agent"
    /\ ~recorder.present
    /\ pc' = "idle"
    /\ result' = "raised"
    /\ hist' = [hist EXCEPT !.err = "AttributeError"]
    /\ UNCHANGED <<env, clock, storage, tools, params, method_dep, recorder, call,
                   candidates, prefix, exhausted, step, rec, cfg, pf>>

InitNested ==
    /\ EngineInit
    /\ cfg = [skills |-> {NoSkill, "skill1"}, pargs |-> ParamArgsOf({"n"}), kw |-> {FALSE},
              vals |-> {1}, invocations |-> MaxKwInvocations]
    /\ pf = [stage |-> "nested", depth |-> 0, count |-> 0, outer |-> Frame,
             inner |-> [result |-> result, hist |-> hist]]

NextNested ==
    \/ \E v \in 0..MaxReset, s \in cfg.skills, p \in cfg.pargs :
          pf.depth = 0 /\ Invoke(v, 0, s, p)
    \/ GetNextStep
    \/ ExecStep
    \/ \E v \in cfg.vals, kw \in cfg.kw : AgentToolCall(v, kw)
    \/ recorder.present /\ AgentReturn
    \/ AgentReturnUnrecorded
    \/ \E s \in cfg.skills, p \in cfg.pargs : NestedInvoke(s, p)
    \/ NestedReturn

SpecNested == InitNested /\ [][NextNested]_vars

(***************************************************************************)
(* DuckDB (persistence.py 22-223) storing types.Step / types.Trajectory    *)
(***************************************************************************)
\* pickle.dumps / pickle.loads: a blob is not the value it holds
Dumps(v) == <<"pickle", v>>
Loads(blob) == blob[2]
\* SQL NULL in a BLOB column, in a TEXT column
NullBlob == <<"NULL">>
NullText == "<NULL>"

\* types.Step.__init__ (26-35): both snapshots are pickled, None included
NewStep(func_name, func_hash, args, kwargs, pre, post) ==
    [func_name |-> func_name, func_hash |-> func_hash, args |-> args, kwargs |-> kwargs,
     pre_data |-> Dumps(pre), post_data |-> Dumps(post)]
\* the properties Step.pre_check_snapshot / Step.post_check_snapshot (44-54)
pre_check_snapshot(st) == Loads(st.pre_data)
post_check_snapshot(st) == Loads(st.post_data)

\* the steps and trajectories given to the store
DuckTasks == {"t1", "t2"}
DuckSteps ==
    {NewStep(f, IF f = "f" THEN "hash_f" ELSE "hash_g",
             IF f = "f" THEN <<1, 2>> ELSE <<>>,
             IF f = "f" THEN <<>> ELSE << <<"k", 1>> >>, pre, post) :
        f \in {"f", "g"}, pre \in {None, 0}, post \in {None, 1}}
DuckTrajectories == [task : DuckTasks, steps : SeqsUpTo(DuckSteps, MaxSteps)]

\* variant: the two snapshot columns are written in each other's place
StepRow_Swapped(st, sid, tid, i) ==
    [id |-> sid, func_name |-> st.func_name, func_hash |-> st.func_hash,
     args |-> Dumps(st.args), kwargs |-> Dumps(st.kwargs),
     pre_check_snapshot_data |->
        IF post_check_snapshot(st) # None THEN Dumps(post_check_snapshot(st)) ELSE NullBlob,
     post_check_snapshot_data |->
        IF pre_check_snapshot(st) # None THEN Dumps(pre_check_snapshot(st)) ELSE NullBlob,
     trajectory_id |-> tid, step_order |-> i]

\* add_trajectory 75-93: the row inserted for step i (0-based) of trajectory tid
StepRow(st, sid, tid, i) ==
    [id |-> sid, func_name |-> st.func_name, func_hash |-> st.func_hash,
     args |-> Dumps(st.args), kwargs |-> Dumps(st.kwargs),
     pre_check_snapshot_data |->
        IF pre_check_snapshot(st) # None THEN Dumps(pre_check_snapshot(st)) ELSE NullBlob,
     post_check_snapshot_data |->
        IF post_check_snapshot(st) # None THEN Dumps(post_check_snapshot(st)) ELSE NullBlob,
     trajectory_id |-> tid, step_order |-> i]

\* trajectories t LEFT JOIN steps s ON t.id = s.trajectory_id, for the
\* trajectory rows `ts`: a trajectory without steps gives one row of NULLs
LeftJoin(ts, steps) ==
    UNION {{[trajectory_id |-> t.id, task |-> t.task, func_name |-> r.func_name,
      func_hash |-> r.func_hash, args |-> r.args, kwargs |-> r.kwargs,
      pre_check_snapshot_data |-> r.pre_check_snapshot_data,
      post_check_snapshot_data |-> r.post_check_snapshot_data,
      step_order |-> r.step_order] :
        r \in {x \in steps : x.trajectory_id = t.id}} : t \in ts}
    \cup
    {[trajectory_id |-> t.id, task |-> t.task, func_name |-> NullText,
      func_hash |-> NullText, args |-> NullBlob, kwargs |-> NullBlob,
      pre_check_snapshot_data |-> NullBlob, post_check_snapshot_data |-> NullBlob,
      step_order |-> None] :
        t \in {u \in ts : ~\E x \in steps : x.trajectory_id = u.id}}

\* ORDER BY t.id, s.step_order
RowBefore(a, b) ==
    \/ a.trajectory_id < b.trajectory_id
    \/ a.trajectory_id = b.trajectory_id /\ a.step_order < b.step_order
OrderBy(rows) ==
    [p \in 1..Cardinality(rows) |->
        CHOOSE r \in rows : Cardinality({q \in rows : RowBefore(q, r)}) = p - 1]

\* the Step built from a row (152-159, 212-219)
StepOfRow(r) ==
    NewStep(r.func_name, r.func_hash, Loads(r.args), Loads(r.kwargs),
            IF r.pre_check_snapshot_data # NullBlob
            THEN Loads(r.pre_check_snapshot_data) ELSE None,
            IF r.post_check_snapshot_data # NullBlob
            THEN Loads(r.post_check_snapshot_data) ELSE None)

\* fetch_trajectories 128-166: the grouping loop over the ordered rows
RECURSIVE FetchLoop(_, _, _, _, _, _)
FetchLoop(rows, i, trajs, current_id, current_trajectory, current_steps) ==
    IF i > Len(rows)
    THEN IF current_id # None
         THEN Append(trajs, [task |-> current_trajectory, steps |-> current_steps])
         ELSE trajs
    ELSE LET row == rows[i]
             moved == current_id # row.trajectory_id
             trajs1 == IF moved /\ current_id # None
                       THEN Append(trajs, [task |-> current_trajectory,
                                           steps |-> current_steps])
                       ELSE trajs
             steps1 == IF moved THEN <<>> ELSE current_steps
             task1 == IF moved THEN row.task ELSE current_trajectory
         IN  FetchLoop(rows, i + 1, trajs1, row.trajectory_id, task1,
                       IF row.func_name = NullText THEN steps1
                       ELSE Append(steps1, StepOfRow(row)))

fetch_trajectories(db, task) ==
    FetchLoop(OrderBy(LeftJoin({t \in db.trajectories : t.task = task}, db.steps)),
              1, <<>>, None, NullText, <<>>)

\* get_trajectory 194-223: None when the id selects no row
NoTrajectory == [task |-> NullText, steps |-> <<>>, found |-> FALSE]
get_trajectory(db, trajectory_id) ==
    LET rows == OrderBy(LeftJoin({t \in db.trajectories : t.id = trajectory_id}, db.steps))
        kept == SelectSeq(rows, LAMBDA r : r.func_name # NullText)
    IN  IF rows = <<>> THEN NoTrajectory
        ELSE [task |-> rows[1].task,
              steps |-> [j \in 1..Len(kept) |-> StepOfRow(kept[j])],
              found |-> TRUE]

InitDuck ==
    /\ EngineInit
    /\ cfg = [skills |-> {NoSkill}, pargs |-> {NoParams}, kw |-> {FALSE},
              vals |-> {1}, invocations |-> 0]
    /\ pf = [db |-> [trajectories |-> {}, steps |-> {}, seq_trajectory_id |-> 1,
                     seq_step_id |-> 1],
             added |-> <<>>,
             read |-> [kind |-> "none", arg |-> "", result |-> <<>>]]

\* DuckDB.add_trajectory 65-104, committed: the trajectory row, then one row
\* per step with step_order = its index; returns the new id
DuckAdd(traj) ==
    /\ Len(pf.added) < MaxAdds
    /\ LET tid == pf.db.seq_trajectory_id
           n == Len(traj.steps)
           rows == {StepRow(traj.steps[j], pf.db.seq_step_id + j - 1, tid, j - 1) :
                       j \in 1..n}
       IN  pf' = [pf EXCEPT
                    !.db = [trajectories |-> pf.db.trajectories \cup
                                                {[id |-> tid, task |-> traj.task]},
                            steps |-> pf.db.steps \cup rows,
                            seq_trajectory_id |-> tid + 1,
                            seq_step_id |-> pf.db.seq_step_id + n],
                    !.added = Append(@, [id |-> tid, trajectory |-> traj]),
                    !.read = [kind |-> "none", arg |-> "", result |-> <<>>]]
    /\ UNCHANGED engineVars

\* DuckDB.get_trajectory(trajectory_id)
DuckGet(trajectory_id) ==
    /\ pf.read.kind = "none"
    /\ pf' = [pf EXCEPT !.read = [kind |-> "get", arg |-> trajectory_id,
                                  result |-> get_trajectory(pf.db, trajectory_id)]]
    /\ UNCHANGED engineVars

\* DuckDB.fetch_trajectories(task)
DuckFetch(task) ==
    /\ pf.read.kind = "none"
    /\ pf' = [pf EXCEPT !.read = [kind |-> "fetch", arg |-> task,
                                  result |-> fetch_trajectories(pf.db, task)]]
    /\ UNCHANGED engineVars

NextDuck ==
    \/ \E traj \in DuckTrajectories : DuckAdd(traj)
    \/ \E id \in 1..(MaxAdds + 1) : DuckGet(id)
    \/ \E task \in DuckTasks : DuckFetch(task)

SpecDuck == InitDuck /\ [][NextDuck]_vars

(***************************************************************************)
(* DuckDB.add_trajectory when an INSERT fails (persistence.py 65-104)       *)
(***************************************************************************)
\* failed calls of add_trajectory in one behaviour
MaxFailedAdds == 1

\* a Step that can be stored, and a Step built with func_hash = None, which
\* is bound as SQL NULL into a NOT NULL column
GoodStep == NewStep("f", "hash_f", <<1, 2>>, <<>>, 0, None)
BadStep == NewStep("g", NullText, <<>>, << <<"k", 1>> >>, None, 1)
\* the trajectories given to add_trajectory: without and with such a step
FailTrajectories == [task : DuckTasks, steps : SeqsUpTo({GoodStep, BadStep}, MaxSteps)]
GoodTrajectories ==
    {t \in FailTrajectories : \A j \in 1..Len(t.steps) : t.steps[j] # BadStep}
BadTrajectories == FailTrajectories \ GoodTrajectories

\* the NOT NULL constraints of table steps (persistence.py 52-55)
NotNullViolated(row) == row.func_name = NullText \/ row.func_hash = NullText

\* the loop of lines 75-96 inside the transaction: rows are inserted until
\* an INSERT raises
RECURSIVE insert_steps(_, _, _, _)
insert_steps(db, steps, j, tid) ==
    IF j > Len(steps) THEN [ok |-> TRUE, at |-> j, db |-> db]
    ELSE LET row == StepRow(steps[j], db.seq_step_id, tid, j - 1) IN
         IF NotNullViolated(row)
         THEN [ok |-> FALSE, at |-> j, db |-> [db EXCEPT !.seq_step_id = @ + 1]]
         ELSE insert_steps([db EXCEPT !.steps = @ \cup {row}, !.seq_step_id = @ + 1],
                           steps, j + 1, tid)

\* variant: ROLLBACK undoes nothing
rollback_Nothing(before, reached, seqs_undone) == reached

\* ROLLBACK (lines 101-104): the rows written since BEGIN are gone; whether
\* the values drawn from the sequences are given back is left open
rollback(before, reached, seqs_undone) ==
    [before EXCEPT
       !.seq_trajectory_id = IF seqs_undone THEN @ ELSE reached.seq_trajectory_id,
       !.seq_step_id = IF seqs_undone THEN @ ELSE reached.seq_step_id]

\* add_trajectory with a trajectory one of whose steps cannot be inserted:
\* BEGIN, the trajectory row, the steps before the bad one, the failing
\* INSERT, ROLLBACK, and the error is raised again
DuckAddRaises(traj, seqs_undone) ==
    /\ pf.failed < MaxFailedAdds
    /\ LET tid == pf.db.seq_trajectory_id
           db1 == [pf.db EXCEPT !.trajectories = @ \cup {[id |-> tid, task |-> traj.task]},
                                !.seq_trajectory_id = tid + 1]
           r == insert_steps(db1, traj.steps, 1, tid)
       IN  /\ ~r.ok
           /\ pf' = [pf EXCEPT !.db = rollback(pf.db, r.db, seqs_undone),
                               !.failed = @ + 1,
                               !.last_failed = [task |-> traj.task, at |-> r.at, id |-> tid],
                               !.read = [kind |-> "none", arg |-> "", result |-> <<>>]]
    /\ UNCHANGED engineVars

InitDuckFail ==
    /\ EngineInit
    /\ cfg = [skills |-> {NoSkill}, pargs |-> {NoParams}, kw |-> {FALSE},
              vals |-> {1}, invocations |-> 0]
    /\ pf = [db |-> [trajectories |-> {}, steps |-> {}, seq_trajectory_id |-> 1,
                     seq_step_id |-> 1],
             added |-> <<>>,
             read |-> [kind |-> "none", arg |-> "", result |-> <<>>],
             failed |-> 0,
             last_failed |-> [task |-> "", at |-> 0, id |-> 0]]

NextDuckFail ==
    \/ \E traj \in GoodTrajectories : DuckAdd(traj)
    \/ \E id \in 1..(MaxAdds + MaxFailedAdds + 1) : DuckGet(id)
    \/ \E task \in DuckTasks : DuckFetch(task)
    \/ \E traj \in BadTrajectories, u \in BOOLEAN : DuckAddRaises(traj, u)

SpecDuckFail == InitDuckFail /\ [][NextDuckFail]_vars


(***************************************************************************)
(* The tool wrapper of the two-phase Engine (engine.py 136-152, 270-306),  *)
(* driven next to the Engine of chat.py; its state is kept in pf           *)
(***************************************************************************)
\* the Step the wrapper appends before the call (279-287)
PreStep(n, snapshot) == NewStep("increment", "hash_increment", <<n>>, <<>>, snapshot, None)
\* the Step the wrapper appends after the call (293-301)
PostStep(n, snapshot) == NewStep("increment", "hash_increment", <<n>>, <<>>, None, snapshot)

\* variant: the pre-check snapshot is captured after the call
wrapper_Late(val, n, pre_check, post_check, steps) ==
    LET after == val + n
        steps1 == IF pre_check THEN Append(steps, PreStep(n, capture(after, <<EnvObj, n>>, <<>>)))
                  ELSE steps
    IN  [val |-> after,
         steps |-> IF post_check
                   THEN Append(steps1, PostStep(n, capture(after, <<EnvObj, n>>, <<>>)))
                   ELSE steps1]

\* wrapper while recording (279-302): pre-check capture and Step, the call
\* itself (Env.increment), post-check capture and Step
wrapper(val, n, pre_check, post_check, steps) ==
    LET steps1 == IF pre_check THEN Append(steps, PreStep(n, capture(val, <<EnvObj, n>>, <<>>)))
                  ELSE steps
        after == val + n
    IN  [val |-> after,
         steps |-> IF post_check
                   THEN Append(steps1, PostStep(n, capture(after, <<EnvObj, n>>, <<>>)))
                   ELSE steps1]

\* Engine.__init__ (83-95) with one method tool registered with or without
\* each check; nothing is being recorded
TwoPhaseInit ==
    pf \in {[stage |-> "two_phase", val |-> 0, recording |-> FALSE,
             pre_check |-> a, post_check |-> b, steps |-> <<>>, calls |-> 0] :
               a \in BOOLEAN, b \in BOOLEAN}

\* invoke_agent under _record (136-139, 146-148): a new trajectory is started
TwoPhaseAgentStart ==
    /\ ~pf.recording
    /\ pf.calls < MaxAgentCalls
    /\ pf' = [pf EXCEPT !.recording = TRUE, !.steps = <<>>]
    /\ UNCHANGED engineVars

\* a call of the wrapped tool (274-302): untraced when nothing is recorded
TwoPhaseToolCall(n) ==
    /\ pf.calls < MaxAgentCalls
    /\ LET r == wrapper(pf.val, n, pf.pre_check, pf.post_check, pf.steps) IN
       pf' = [pf EXCEPT !.val = IF pf.recording THEN r.val ELSE pf.val + n,
                        !.steps = IF pf.recording THEN r.steps ELSE pf.steps,
                        !.calls = @ + 1]
    /\ UNCHANGED engineVars

\* the agent returns (140-142, 149-152): recording is switched back
TwoPhaseAgentEnd ==
    /\ pf.recording
    /\ pf' = [pf EXCEPT !.recording = FALSE]
    /\ UNCHANGED engineVars

InitWrap ==
    /\ EngineInit
    /\ cfg = [skills |-> {NoSkill}, pargs |-> {NoParams}, kw |-> {FALSE},
              vals |-> Vals, invocations |-> MaxKwInvocations]
    /\ TwoPhaseInit

NextWrap ==
    \/ Next
    \/ TwoPhaseAgentStart
    \/ \E n \in Vals : TwoPhaseToolCall(n)
    \/ TwoPhaseAgentEnd

SpecWrap == InitWrap /\ [][NextWrap]_vars

(***************************************************************************)
(* The two-phase Engine (engine.py 83-251) with the in-memory DB            *)
(* (persistence.py 10-19), set up and used as examples/greeter.py does:     *)
(* the tool hello takes some time, capture reads the time, compare accepts  *)
(* a snapshot at most Window old.  The Engine is the record kept in pf.     *)
(***************************************************************************)
\* greeter.py 19-23: diff <= 1
Window == 1
\* the time at which the model stops
MaxNow == 3
\* builder calls (set_agent, set_context, function, method, finalize)
MaxBuilderOps == 3

Tasks == {"john", "erik"}
Agents == {1, 2}
\* how long one call of hello takes
Durations == {0, 1}

\* greeter.py 15-17 (the name held in the snapshot is not compared)
capture_time(now) == now
\* greeter.py 19-23
compare_time(captured, candidate) == captured - candidate <= Window

\* no entry in Tools.tools
NoTool == [present |-> FALSE, is_method |-> FALSE, pre_check |-> FALSE,
           post_check |-> FALSE, func_hash |-> ""]
\* Tool.__init__ (42-48)
Tool(is_method, pre_check, post_check) ==
    [present |-> TRUE, is_method |-> is_method, pre_check |-> pre_check,
     post_check |-> post_check, func_hash |-> "hash_hello"]
\* Tools.len (58-59)
Tools_len(ts) == Cardinality({n \in DOMAIN ts : ts[n].present})
\* Tools.has_methods (67-68)
has_methods(ts) == \E n \in DOMAIN ts : ts[n].present /\ ts[n].is_method
\* Tools.get (70-80): None for an unknown name or another hash
Tools_get(ts, name, hash) ==
    IF name \notin DOMAIN ts \/ ~ts[name].present THEN NoTool
    ELSE IF ts[name].func_hash # hash THEN NoTool
    ELSE ts[name]

\* a builder or runtime method raised / returned
Raised(e, op, msg) == [e EXCEPT !.op = op, !.result = "raised", !.err = msg]
Done(e, op) == [e EXCEPT !.op = op, !.result = "ok", !.err = ""]

\* variant: the agent is replaced without looking at finalized
set_agent_Unchecked(e, a) == Done([e EXCEPT !.agent = a], "set_agent")

\* Engine.set_agent (99-104)
set_agent(e, a) ==
    IF e.finalized THEN Raised(e, "set_agent", "finalized")
    ELSE Done([e EXCEPT !.agent = a], "set_agent")

\* Engine.set_context (106-111)
set_context(e, c) ==
    IF e.finalized THEN Raised(e, "set_context", "finalized")
    ELSE Done([e EXCEPT !.ctx_instance = c], "set_context")

\* Engine.finalize (113-122)
finalize(e) ==
    IF Tools_len(e.tools) = 0 THEN Raised(e, "finalize", "no tool")
    ELSE IF e.agent = None THEN Raised(e, "finalize", "no agent")
    ELSE IF e.ctx_instance = None /\ has_methods(e.tools)
    THEN Raised(e, "finalize", "no context")
    ELSE Done([e EXCEPT !.finalized = TRUE], "finalize")

\* the decorator of _register_tool (270-272) with Tools.register (61-65)
register_tool(e, op, is_method, pre_check, post_check) ==
    IF e.tools["hello"].present THEN Raised(e, op, "already registered")
    ELSE Done([e EXCEPT !.tools["hello"] = Tool(is_method, pre_check, post_check)], op)

\* Engine.function (125-128), applied to hello
function(e, pre_check, post_check) ==
    IF e.finalized THEN Raised(e, "function", "finalized")
    ELSE register_tool(e, "function", FALSE, pre_check, post_check)

\* Engine.method (130-133), applied to hello
method(e, pre_check, post_check) ==
    IF e.finalized THEN Raised(e, "method", "finalized")
    ELSE register_tool(e, "method", TRUE, pre_check, post_check)

\* DB.fetch_trajectories (persistence.py 18-19): positions in store order
RECURSIVE DB_fetch(_, _, _)
DB_fetch(trajectories, task, i) ==
    IF i > Len(trajectories) THEN <<>>
    ELSE IF trajectories[i].task = task
    THEN <<i>> \o DB_fetch(trajectories, task, i + 1)
    ELSE DB_fetch(trajectories, task, i + 1)

\* variant: a step without pre-check snapshot counts as passed
RECURSIVE CountPassed_Lenient(_, _, _, _)
CountPassed_Lenient(steps, i, ts, now) ==
    IF i > Len(steps) THEN 0
    ELSE LET st == steps[i] IN
         IF pre_check_snapshot(st) = None
         THEN 1 + CountPassed_Lenient(steps, i + 1, ts, now)
         ELSE IF Tools_get(ts, st.func_name, st.func_hash) = NoTool THEN 0
         ELSE IF ~compare_time(capture_time(now), pre_check_snapshot(st)) THEN 0
         ELSE 1 + CountPassed_Lenient(steps, i + 1, ts, now)

\* the inner loop of the selection phase (173-191): the steps counted in
\* `passed`; a step without snapshot is skipped, a failing one ends the loop.
\* (A tool resolved here has the pre_check its steps were recorded with: the
\* registry is frozen before the first trajectory is stored.)
RECURSIVE CountPassed(_, _, _, _)
CountPassed(steps, i, ts, now) ==
    IF i > Len(steps) THEN 0
    ELSE LET st == steps[i] IN
         IF pre_check_snapshot(st) = None
         THEN CountPassed(steps, i + 1, ts, now)
         ELSE IF Tools_get(ts, st.func_name, st.func_hash) = NoTool THEN 0
         ELSE IF ~compare_time(capture_time(now), pre_check_snapshot(st)) THEN 0
         ELSE 1 + CountPassed(steps, i + 1, ts, now)

\* the outer loop (171-194): the first candidate with passed == len(steps);
\* 0 when none is selected
RECURSIVE Select(_, _, _, _)
Select(trajectories, cands, ts, now) ==
    IF cands = <<>> THEN 0
    ELSE LET steps == trajectories[Head(cands)].steps IN
         IF CountPassed(steps, 1, ts, now) = Len(steps) THEN Head(cands)
         ELSE Select(trajectories, Tail(cands), ts, now)

\* lines 248-251 once the loop over selected.steps is over: the trajectory of
\* this run is stored and True returned; _record restores recording
Finish(e) ==
    IF e.idx > Len(e.selected)
    THEN [e EXCEPT !.trajectories = Append(@, [task |-> e.task, steps |-> e.current]),
                   !.mode = "idle", !.recording = FALSE, !.result = "hit"]
    ELSE e

\* an error leaves __call__ through _record (149-152)
Abort(e, msg) ==
    [e EXCEPT !.mode = "idle", !.recording = FALSE, !.result = "raised", !.err = msg]

\* variant: a failed pre-check during execution falls back to the agent
exec_step_Fallback(e, d) ==
    LET st == e.selected[e.idx]
        tool == Tools_get(e.tools, st.func_name, st.func_hash)
        cur == capture_time(e.now)
        e1 == [e EXCEPT !.now = @ + d, !.executed = @ + 1]
    IN  IF tool.pre_check /\ ~compare_time(cur, pre_check_snapshot(st))
        THEN [e EXCEPT !.mode = "agent", !.current = <<>>, !.agentRuns = @ + 1]
        ELSE Finish([e1 EXCEPT !.current = Append(@,
                        NewStep(st.func_name, st.func_hash, st.args, st.kwargs,
                                cur, None)),
                     !.idx = @ + 1])

\* one pass of the execution loop (202-248); hello takes d
exec_step(e, d) ==
    LET st == e.selected[e.idx]
        tool == Tools_get(e.tools, st.func_name, st.func_hash)
        cur == capture_time(e.now)
        e1 == [e EXCEPT !.now = @ + d, !.executed = @ + 1]
        cur2 == capture_time(e1.now)
    IN  IF tool = NoTool THEN Abort(e, "tool lookup failed")
        ELSE IF tool.pre_check /\ pre_check_snapshot(st) = None
        THEN Abort(e, "missing pre-check snapshot")
        ELSE IF tool.pre_check /\ ~compare_time(cur, pre_check_snapshot(st))
        THEN Abort(e, "no longer safe")
        ELSE IF tool.post_check /\ post_check_snapshot(st) = None
        THEN Abort(e1, "missing post-check snapshot")
        ELSE IF tool.post_check /\ ~compare_time(cur2, post_check_snapshot(st))
        THEN Abort(e1, "failed post-check")
        ELSE Finish([e1 EXCEPT !.current = Append(@,
                        NewStep(st.func_name, st.func_hash, st.args, st.kwargs,
                                IF tool.pre_check THEN cur ELSE None,
                                IF tool.post_check THEN cur2 ELSE None)),
                     !.idx = @ + 1])

\* the wrapper of hello while recording (275-302); hello takes d
hello(e, name, d) ==
    LET tool == e.tools["hello"]
        steps1 == IF tool.pre_check
                  THEN Append(e.current, NewStep("hello", tool.func_hash, <<name>>, <<>>,
                                                 capture_time(e.now), None))
                  ELSE e.current
        after == e.now + d
        steps2 == IF tool.post_check
                  THEN Append(steps1, NewStep("hello", tool.func_hash, <<name>>, <<>>,
                                              None, capture_time(after)))
                  ELSE steps1
    IN  [e EXCEPT !.now = after, !.current = IF e.recording THEN steps2 ELSE e.current,
                  !.calls = @ + 1]

\* Engine.__call__ up to the first call of a tool or of the agent (154-201)
call_engine(e, task) ==
    LET f == IF e.finalized THEN e ELSE finalize(e)
        cands == DB_fetch(f.trajectories, task, 1)
        sel == Select(f.trajectories, cands, f.tools, f.now)
        g == [f EXCEPT !.op = "call", !.err = "", !.result = "none", !.task = task,
                       !.recording = TRUE, !.current = <<>>, !.calls = 0]
    IN  IF ~f.finalized THEN [f EXCEPT !.op = "call", !.task = task]
        ELSE IF sel = 0
        THEN [g EXCEPT !.mode = "agent", !.agentRuns = 1]
        ELSE Finish([g EXCEPT !.mode = "exec", !.selected = f.trajectories[sel].steps,
                              !.sel = sel, !.idx = 1])

\* Engine.__init__ (83-95)
TwoPhaseEngine ==
    [stage |-> "engine", finalized |-> FALSE, agent |-> None, ctx_instance |-> None,
     tools |-> [n \in {"hello"} |-> NoTool], trajectories |-> <<>>,
     mode |-> "idle", recording |-> FALSE, current |-> <<>>,
     now |-> 0, task |-> "", selected |-> <<>>, sel |-> 0, idx |-> 0, calls |-> 0,
     op |-> "init", result |-> "ok", err |-> "",
     n |-> 0, ops |-> 0, executed |-> 0, agentRuns |-> 0, startDb |-> <<>>]

InitEngine ==
    /\ EngineInit
    /\ cfg = [skills |-> {NoSkill}, pargs |-> {NoParams}, kw |-> {FALSE},
              vals |-> Vals, invocations |-> 0]
    /\ pf = TwoPhaseEngine

\* a builder method is called between invocations
BuilderGuard == pf.mode = "idle" /\ pf.ops < MaxBuilderOps

SetAgent(a) ==
    /\ BuilderGuard
    /\ pf' = [set_agent(pf, a) EXCEPT !.ops = @ + 1]
    /\ UNCHANGED engineVars

SetContext ==
    /\ BuilderGuard
    /\ pf' = [set_context(pf, EnvObj) EXCEPT !.ops = @ + 1]
    /\ UNCHANGED engineVars

Function(pre_check, post_check) ==
    /\ BuilderGuard
    /\ pf' = [function(pf, pre_check, post_check) EXCEPT !.ops = @ + 1]
    /\ UNCHANGED engineVars

Method(pre_check, post_check) ==
    /\ BuilderGuard
    /\ pf' = [method(pf, pre_check, post_check) EXCEPT !.ops = @ + 1]
    /\ UNCHANGED engineVars

Finalize ==
    /\ BuilderGuard
    /\ pf' = [finalize(pf) EXCEPT !.ops = @ + 1]
    /\ UNCHANGED engineVars

\* the caller invokes the Engine with a task, dt after the last event
CallEngine(task, dt) ==
    /\ pf.mode = "idle"
    /\ pf.n < MaxInvocations
    /\ pf.now + dt <= MaxNow
    /\ pf' = call_engine([pf EXCEPT !.now = @ + dt, !.n = @ + 1, !.executed = 0,
                                    !.agentRuns = 0, !.sel = 0,
                                    !.startDb = pf.trajectories], task)
    /\ UNCHANGED engineVars

\* the execution phase handles the next step of the selected trajectory
ExecSelected(d) ==
    /\ pf.mode = "exec"
    /\ pf.now + d <= MaxNow
    /\ pf' = [exec_step(pf, d) EXCEPT !.op = "exec"]
    /\ UNCHANGED engineVars

\* the agent calls hello (greeter.py 30-32)
AgentHello(d) ==
    /\ pf.mode = "agent"
    /\ pf.calls < MaxAgentCalls
    /\ pf.now + d <= MaxNow
    /\ pf' = [hello(pf, pf.task, d) EXCEPT !.op = "hello"]
    /\ UNCHANGED engineVars

\* the agent returns: invoke_agent stores the trajectory (141-142), __call__
\* returns False (168, 198)
invoke_agent_end ==
    /\ pf.mode = "agent"
    /\ pf' = [pf EXCEPT !.trajectories = Append(@, [task |-> pf.task, steps |-> pf.current]),
                        !.current = <<>>, !.mode = "idle", !.recording = FALSE,
                        !.op = "agent_end", !.result = "miss"]
    /\ UNCHANGED engineVars

NextEngine ==
    \/ \E a \in Agents : SetAgent(a)
    \/ SetContext
    \/ \E a \in BOOLEAN, b \in BOOLEAN : Function(a, b)
    \/ \E a \in BOOLEAN, b \in BOOLEAN : Method(a, b)
    \/ Finalize
    \/ \E t \in Tasks, dt \in Durations : CallEngine(t, dt)
    \/ \E d \in Durations : ExecSelected(d)
    \/ \E d \in Durations : AgentHello(d)
    \/ invoke_agent_end

SpecEngine == InitEngine /\ [][NextEngine]_vars

(***************************************************************************)
(* Observations shared by the properties                                   *)
(***************************************************************************)
\* an invocation has ended (returned or raised) and nothing happened since
Ended == pc = "idle" /\ hist.n > 0
Returned == Ended /\ result \in {"hit", "miss"}
\* the trajectories stored under the invocation's key when it started / now
StoredAtStart == hist.startStorage[hist.key]
StoredNow == storage[hist.key]
\* the concrete calls the Engine executed during replay
ExecutedCalls ==
    [i \in 1..Len(hist.executed) |->
        [func_name |-> hist.executed[i].func_name,
         args |-> hist.executed[i].args,
         kwargs |-> hist.executed[i].kwargs]]

(***************************************************************************)
(* C1  Miss-then-hit                                                       *)
(***************************************************************************)
\* C1: an invocation for a key under which no trajectory is stored returns
\* miss (never hit, never an error), calls the agent once, and leaves exactly
\* one trajectory under that key, holding the recorded steps, with
\* successful_runs = 1 and failed_runs = 0.
C1_MissOnUnseenKey ==
    (hist.n > 0 /\ StoredAtStart = <<>>) =>
        /\ pc \in {"replay", "agent", "idle"}
        /\ pc = "replay" => StoredNow = <<>>
        /\ pc = "agent" => StoredNow = <<>> /\ hist.agentRuns = 1
        /\ pc = "idle" =>
              /\ result = "miss"
              /\ hist.agentRuns = 1
              /\ hist.executed = <<>>
              /\ Len(StoredNow) = 1
              /\ StoredNow[1].successful_runs = 1
              /\ StoredNow[1].failed_runs = 0
              /\ Len(StoredNow[1].steps) = Len(hist.agentCalls)

C1_Witness ==
    /\ Ended /\ result = "miss" /\ StoredAtStart = <<>>
    /\ Len(StoredNow) = 1 /\ Len(StoredNow[1].steps) = 2

(***************************************************************************)
(* C2  Idempotent hit under unchanged state                                *)
(***************************************************************************)
\* the key holds the single trajectory of its one miss, and the invocation
\* started in the state S the agent of that miss started from
RestoredToRecordingState ==
    /\ Ended
    /\ Len(StoredAtStart) = 1
    /\ hist.startEnv = rec[hist.key][1].start

\* C2 as stated: whenever the environment is restored to S before an
\* invocation of the key, the invocation is a hit and the key keeps its one
\* trajectory (whatever params the invocation runs under).
C2_Original ==
    RestoredToRecordingState => result = "hit" /\ Len(StoredNow) = 1

\* C2 amended: the same, for invocations that run under the params the
\* recording ran under.
C2_IdempotentHitSameParams ==
    (RestoredToRecordingState /\ params = rec[hist.key][1].params) =>
        result = "hit" /\ Len(StoredNow) = 1

\* the second hit in a row on a two-step trajectory
C2_Witness ==
    /\ RestoredToRecordingState /\ params = rec[hist.key][1].params
    /\ result = "hit"
    /\ StoredNow[1].successful_runs = 3
    /\ Len(StoredNow[1].steps) = 2

FirstReplayed == hist.executed[1].owner
\* that trajectory was recorded from the state and under the params the
\* invocation started with, from an agent run of n >= 1 tool calls
ReplayedFromRecordingState ==
    /\ Ended
    /\ Len(hist.executed) >= 1
    /\ hist.startEnv = rec[hist.key][FirstReplayed].start
    /\ params = rec[hist.key][FirstReplayed].params
    /\ Len(rec[hist.key][FirstReplayed].calls) >= 1

\* C4: then the invocation is a hit on that trajectory, the executed calls are
\* the recorded calls (same tools, same concrete arguments, same order), each
\* pre-check saw the state left by the previously replayed step, and the
\* environment ends in the state the recording run ended in.
C4_ReplayRepeatsRecording ==
    ReplayedFromRecordingState =>
        /\ result = "hit"
        /\ hist.marked = FirstReplayed
        /\ ExecutedCalls = rec[hist.key][FirstReplayed].calls
        /\ env = rec[hist.key][FirstReplayed].end
        /\ \A j \in 1..Len(hist.executed) :
              hist.executed[j].check.current =
                 IF j = 1 THEN hist.startEnv ELSE hist.executed[j - 1].post

\* a two-step replay that injected a parameter
C4_Witness ==
    /\ ReplayedFromRecordingState
    /\ result = "hit"
    /\ Len(hist.executed) = 2
    /\ \E j \in 1..2 : StoredNow[FirstReplayed].steps[j].args[1].kind = "PARAM"
    /\ env = hist.startEnv + 2

(***************************************************************************)
(* C5  Drift pruning                                                       *)
(***************************************************************************)
\* the implementation registered now differs from the one trajectory i of the
\* invocation's key was recorded with
Drifted(i) == rec[hist.key][i].impl # hist.startTools["increment"].impl

\* C5: when every trajectory stored for the key uses a tool whose registered
\* implementation changed since the recording, the invocation prunes them
\* all without raising, executes none of their steps, and returns miss after
\* calling the agent.
C5_DriftPruned ==
    (/\ Ended
     /\ StoredAtStart # <<>>
     /\ \A i \in 1..Len(StoredAtStart) : StoredAtStart[i].steps # <<>> /\ Drifted(i))
    => /\ result = "miss"
       /\ hist.executed = <<>>
       /\ hist.agentRuns = 1

\* a trajectory recorded with the first implementation is replayed to a hit
\* with the second one, and the environment ends elsewhere than the recording
C5_Witness ==
    /\ Ended /\ result = "hit"
    /\ Len(StoredAtStart) = 1 /\ Drifted(1)
    /\ Len(hist.executed) = 1
    /\ hist.startEnv = rec[hist.key][1].start
    /\ env # rec[hist.key][1].end

(***************************************************************************)
(* C6  hit = not exhausted; the agent runs exactly on a miss               *)
(***************************************************************************)
\* C6: an invocation returns hit exactly when its replay loop ended with the
\* Replayer not exhausted and miss exactly when it ended exhausted; the agent
\* is called once in an invocation that returns miss, never in one that
\* returns hit, and never before the loop has ended.
C6_HitIffNotExhausted ==
    /\ Returned => (result = "hit" <=> ~exhausted)
    /\ Returned /\ result = "hit" => hist.agentRuns = 0
    /\ Returned /\ result = "miss" => hist.agentRuns = 1
    /\ pc = "agent" => exhausted /\ hist.agentRuns = 1
    /\ pc \in {"replay", "exec"} => ~exhausted /\ hist.agentRuns = 0

\* a miss that came after replayed steps
C6_Witness == Returned /\ result = "miss" /\ hist.executed # <<>> /\ exhausted

(***************************************************************************)
(* C7  Key isolation                                                       *)
(***************************************************************************)
\* two skill arguments name the same key: `key = skill or ""` (an absent
\* skill and the empty skill are the key "")
SameSkillKey(s1, s2) == s1 = s2 \/ {s1, s2} \subseteq {NoSkill, ""}
\* the key a skill argument must be stored under
OwnKey(skill) == IF skill \in {NoSkill, ""} THEN "" ELSE skill

\* C7: only trajectories recorded under the invocation's skill key are its
\* candidates; an invocation under a key with no recording of its own is a
\* miss; an invocation changes no trajectory (steps or counters) recorded
\* under another skill key, and whatever it adds is stored under its own key.
C7_KeyIsolation ==
    /\ pc \in {"replay", "exec"} =>
          \A i \in Range(candidates) :
             SameSkillKey(rec[Key(call.skill)][i].skill, call.skill)
    /\ (/\ Ended
        /\ \A k \in Keys : \A i \in 1..Len(hist.startStorage[k]) :
              ~SameSkillKey(rec[k][i].skill, call.skill))
       => result = "miss"
    /\ hist.n > 0 =>
          \A k \in Keys :
             /\ Len(storage[k]) >= Len(hist.startStorage[k])
             /\ \A i \in 1..Len(hist.startStorage[k]) :
                   ~SameSkillKey(rec[k][i].skill, call.skill) =>
                       storage[k][i] = hist.startStorage[k][i]
             /\ \A i \in (Len(hist.startStorage[k]) + 1)..Len(storage[k]) :
                   rec[k][i].skill = call.skill /\ k = OwnKey(call.skill)

\* the task just hit under the default key; the first invocation under
\* "skill1" is a miss that leaves the default key's trajectory as it was
C7_Witness ==
    /\ Ended /\ result = "miss" /\ call.skill = "skill1"
    /\ Len(storage[""]) = 1 /\ storage[""][1].successful_runs = 2
    /\ storage[""] = hist.startStorage[""]
    /\ hist.startStorage["skill1"] = <<>> /\ Len(storage["skill1"]) = 1

(***************************************************************************)
(* C8  Parameter generalization                                            *)
(***************************************************************************)
\* the value an Arg stands for under the current params
Injected(a, x) ==
    IF a.kind = "PARAM"
    THEN \E j \in 1..Len(params) : params[j][1] = a.key /\ params[j][2] = x
    ELSE x = a.value
\* the concrete arguments (receiver first) are the injection of the stored Args
InjectedCall(st, args, kwargs) ==
    /\ Len(args) = Len(st.args) + 1
    /\ args[1] = EnvObj
    /\ \A j \in 1..Len(st.args) : Injected(st.args[j], args[j + 1])
    /\ Len(kwargs) = Len(st.kwargs)
    /\ \A j \in 1..Len(st.kwargs) :
          kwargs[j][1] = st.kwargs[j][1] /\ Injected(st.kwargs[j][2], kwargs[j][2])
\* the one stored trajectory was recorded under {n: v1}, the invocation ran
\* under {n: v2} with v2 # v1, from the state the recording started in
ReplayedUnderOtherParams ==
    /\ Ended
    /\ Len(StoredAtStart) = 1
    /\ rec[hist.key][1].params # <<>>
    /\ params # <<>>
    /\ params[1][1] = rec[hist.key][1].params[1][1]
    /\ params[1][2] # rec[hist.key][1].params[1][2]
    /\ hist.startEnv = rec[hist.key][1].start
\* the value bound to n by an executed call
CallN(x) == IF Len(x.args) >= 2 THEN x.args[2] ELSE x.kwargs[1][2]

\* C8 as stated: ... so the invocation is a hit (whatever the trajectory).
C8_Original ==
    ReplayedUnderOtherParams => result = "hit"

\* C8 amended: every executed step's capture and execution received the
\* injection of the stored Args under the current params (parameter
\* references as the current value, statics as the recorded literal); a
\* trajectory of one step replayed under the other params is a hit whose
\* side effect uses the injected value.
C8_InjectionUnderNewParams ==
    /\ \A i \in 1..Len(hist.executed) :
          LET x == hist.executed[i]
              st == StoredAtStart[x.owner].steps[x.pos]
          IN  /\ InjectedCall(st, x.args, x.kwargs)
              /\ InjectedCall(st, x.check.args, x.check.kwargs)
    /\ (ReplayedUnderOtherParams /\ Len(StoredAtStart[1].steps) = 1) =>
          /\ result = "hit"
          /\ Len(hist.executed) = 1
          /\ env = hist.startEnv + CallN(hist.executed[1])

\* recorded as increment(n = 0) under {n: 0}, replayed under {n: 1}: a hit
\* that incremented by 1
C8_Witness ==
    /\ ReplayedUnderOtherParams /\ Len(StoredAtStart[1].steps) = 1
    /\ result = "hit"
    /\ StoredAtStart[1].steps[1].kwargs # <<>>
    /\ StoredAtStart[1].steps[1].kwargs[1][2].kind = "PARAM"
    /\ rec[hist.key][1].params[1][2] = 0
    /\ env = hist.startEnv + 1

(***************************************************************************)
(* C9  Parameterization round trip                                         *)
(***************************************************************************)
\* C9: for every call, strip followed by inject under the same params and the
\* same bound receiver succeeds and gives back the call's arguments.
C9_RoundTrip ==
    pf.stage \in {"raised", "injected"} =>
        /\ pf.stage = "injected"
        /\ pf.out_args = pf.args
        /\ pf.out_kwargs = pf.kwargs

\* a method-style call with a None argument, receiver bound: strip raises
C9_Witness ==
    /\ pf.stage = "raised" /\ pf.err = "ValueError"
    /\ pf.is_method /\ pf.method_dep = EnvObj
    /\ pf.args = <<EnvObj, None>> /\ pf.kwargs = <<>> /\ pf.params = <<>>

(***************************************************************************)
(* C10  A candidate that passes alone, behind stale candidates             *)
(***************************************************************************)
\* every step of `steps` passes its pre-check when the steps are replayed
\* alone, in order, from environment e under params ps
RECURSIVE PassAlone(_, _, _, _)
PassAlone(steps, e, ps, reg) ==
    IF steps = <<>> THEN TRUE
    ELSE LET st == Head(steps)
             inj == inject(ps, EnvObj, st.args, st.kwargs)
         IN  /\ inj.ok
             /\ NeedsCheck(st, reg[st.func_name]) =>
                   compare(capture(e, inj.args, inj.kwargs), st.pre_check_snapshot)
             /\ PassAlone(Tail(steps),
                          ToolFunc(reg[st.func_name].impl, e, inj.args, inj.kwargs),
                          ps, reg)

\* the ranks, at the invocation's start, of the candidates that pass alone
\* (counters only move at the end of get_next_step, so the steps are the
\* stored ones)
RankedAtStart == CandidateSet(StoredAtStart, clock)
PassingRanks ==
    {r \in 1..Len(RankedAtStart) :
        PassAlone(StoredAtStart[RankedAtStart[r]].steps, hist.startEnv, params, tools)}

\* C10 as stated: a stored candidate passes alone from the invocation's
\* initial state => the invocation is a hit, however the others rank.
C10_Original ==
    (Ended /\ PassingRanks # {}) => result = "hit"

\* a miss, after a replayed step, with a stored candidate that passes alone
C10_Witness ==
    /\ Ended /\ result = "miss"
    /\ PassingRanks # {}
    /\ hist.executed # <<>>

(***************************************************************************)
(* C11  Stored trajectories count the misses                               *)
(***************************************************************************)
\* the step is the return of a miss by an invocation of key k
ReturnsMiss(k) ==
    pc # "idle" /\ pc' = "idle" /\ result' = "miss" /\ OwnKey(call.skill) = k

\* C11: every step of the Engine leaves the number of trajectories of every
\* key unchanged, except the return of a miss, which adds exactly one under
\* the invocation's key; no step removes or replaces a stored trajectory. So
\* after any sequence of invocations the count of a key is its number of
\* misses.
C11_StoreCountsMisses ==
    [][\A k \in Keys :
          /\ Len(storage'[k]) = Len(storage[k]) + (IF ReturnsMiss(k) THEN 1 ELSE 0)
          /\ \A i \in 1..Len(storage[k]) : storage'[k][i].steps = storage[k][i].steps
      ]_vars

\* two misses (the second after drift) and then a hit: two trajectories
C11_Witness ==
    /\ Ended /\ hist.n = 3 /\ result = "hit"
    /\ Len(storage[""]) = 2
    /\ storage["skill1"] = <<>>

(***************************************************************************)
(* C12  No error reaches the caller                                        *)
(***************************************************************************)
\* C12: every invocation ends by returning hit or miss; none ends with an
\* error, whatever is stored for the key and whatever params are passed.
C12_NeverRaises ==
    Ended => result \in {"hit", "miss"}

\* a trajectory recorded under {n: 1} is a candidate of an invocation under
\* {m: 1}: inject raises KeyError before any step is returned
C12_Witness ==
    /\ Ended /\ result = "raised" /\ hist.err = "KeyError"
    /\ Len(StoredAtStart) = 1
    /\ rec[hist.key][1].params = << <<"n", 1>> >>
    /\ params = << <<"m", 1>> >>
    /\ hist.executed = <<>>

(***************************************************************************)
(* C13  Candidates are tried in non-increasing score order                 *)
(***************************************************************************)
\* score(a) >= score(b) for score = (s / max(1, s + f)) * (now - last), with
\* the counters the trajectories had when the CandidateSet was built
\* (cross-multiplied: the denominators are positive)
ScoreAtLeast(a, b) ==
    LET da == IF a.successful_runs + a.failed_runs >= 1
              THEN a.successful_runs + a.failed_runs ELSE 1
        db == IF b.successful_runs + b.failed_runs >= 1
              THEN b.successful_runs + b.failed_runs ELSE 1
    IN  a.successful_runs * (clock - a.last_successful_run) * db
           >= b.successful_runs * (clock - b.last_successful_run) * da
\* the candidates in the order the invocation tried or will try them:
\* those already pruned, then those remaining (current first)
TriedOrder == [i \in 1..Len(hist.pruned) |-> hist.pruned[i].traj] \o candidates

\* C13: from the construction of the CandidateSet on, the pruned candidates
\* followed by the remaining ones are the trajectories fetched for the key,
\* each once, in non-increasing order of the score computed at construction;
\* so current() is the highest-scored remaining candidate and
\* remove_current() removed exactly the current one.
C13_TriedByScore ==
    hist.n > 0 =>
        /\ Len(TriedOrder) = Len(StoredAtStart)
        /\ \A t \in 1..Len(StoredAtStart) : \E i \in 1..Len(TriedOrder) : TriedOrder[i] = t
        /\ \A i, j \in 1..Len(TriedOrder) :
              i < j => ScoreAtLeast(StoredAtStart[TriedOrder[i]], StoredAtStart[TriedOrder[j]])

\* the trajectory stored second scores strictly higher, was tried first and
\* pruned; the one stored first is the current candidate
C13_Witness ==
    /\ hist.n > 0 /\ pc = "exec"
    /\ Len(StoredAtStart) = 2
    /\ TriedOrder = <<2, 1>>
    /\ Len(hist.pruned) = 1
    /\ ~ScoreAtLeast(StoredAtStart[1], StoredAtStart[2])

(***************************************************************************)
(* C14  Scoring monotonicity                                               *)
(***************************************************************************)
Total(t) == t.successful_runs + t.failed_runs
\* ratio(a) > ratio(b) and ratio(a) = ratio(b), for ratio = s / max(1, s + f)
RatioHigher(a, b) ==
    a.successful_runs * (IF Total(b) >= 1 THEN Total(b) ELSE 1)
       > b.successful_runs * (IF Total(a) >= 1 THEN Total(a) ELSE 1)
RatioEqual(a, b) ==
    a.successful_runs * (IF Total(b) >= 1 THEN Total(b) ELSE 1)
       = b.successful_runs * (IF Total(a) >= 1 THEN Total(a) ELSE 1)

\* C14: with equal totals and equal last_successful_run, the trajectory with
\* the higher success ratio scores at least as high; with equal ratios, the
\* one with the older last_successful_run scores at least as high.
C14_ScoreMonotone ==
    pf.stage = "ranked" =>
        /\ (/\ Total(pf.a) = Total(pf.b)
            /\ pf.a.last_successful_run = pf.b.last_successful_run
            /\ RatioHigher(pf.a, pf.b)) => pf.a_at_least
        /\ (/\ RatioEqual(pf.a, pf.b)
            /\ pf.a.last_successful_run < pf.b.last_successful_run) => pf.a_at_least

\* equal totals and ages, a with the higher ratio: a scores at least as high
\* and is ranked first
C14_Witness ==
    /\ pf.stage = "ranked"
    /\ Total(pf.a) = 2 /\ Total(pf.b) = 2
    /\ pf.a.last_successful_run = 0 /\ pf.b.last_successful_run = 0 /\ pf.now = 2
    /\ pf.a.successful_runs = 2 /\ pf.b.successful_runs = 1
    /\ pf.a_at_least /\ pf.a_first

(***************************************************************************)
(* C15  Storage round trip                                                 *)
(***************************************************************************)
\* the fields the claim compares, of a trajectory given or read back
StepFields(st) ==
    [func_name |-> st.func_name, func_hash |-> st.func_hash, args |-> st.args,
     kwargs |-> st.kwargs, pre |-> pre_check_snapshot(st), post |-> post_check_snapshot(st)]
TrajectoryFields(t) ==
    [task |-> t.task, steps |-> [j \in 1..Len(t.steps) |-> StepFields(t.steps[j])]]
\* the trajectories added under a task, in the order they were added
AddedUnder(task) ==
    LET sel == SelectSeq(pf.added, LAMBDA a : a.trajectory.task = task)
    IN  [j \in 1..Len(sel) |-> TrajectoryFields(sel[j].trajectory)]

\* C15: get_trajectory(id) gives back the trajectory add_trajectory returned
\* that id for (same task, same steps in order, each with the same func_name,
\* func_hash, args, kwargs and snapshots), and fetch_trajectories(task) gives
\* back exactly the trajectories added under that task, whatever else is
\* stored.
C15_StorageRoundTrip ==
    /\ pf.read.kind = "get" =>
          \A i \in 1..Len(pf.added) :
             pf.added[i].id = pf.read.arg =>
                /\ pf.read.result.found
                /\ TrajectoryFields(pf.read.result) = TrajectoryFields(pf.added[i].trajectory)
    /\ pf.read.kind = "fetch" =>
          [j \in 1..Len(pf.read.result) |-> TrajectoryFields(pf.read.result[j])]
             = AddedUnder(pf.read.arg)

\* a zero-step trajectory and a two-step one (snapshots present and absent)
\* under the same task, both read back by fetch_trajectories
C15_Witness ==
    /\ pf.read.kind = "fetch" /\ pf.read.arg = "t1"
    /\ Len(pf.read.result) = 2
    /\ pf.read.result[1].steps = <<>>
    /\ Len(pf.read.result[2].steps) = 2
    /\ pre_check_snapshot(pf.read.result[2].steps[1]) = None
    /\ post_check_snapshot(pf.read.result[2].steps[1]) = 1
    /\ pre_check_snapshot(pf.read.result[2].steps[2]) = 0
    /\ pf.read.result[2].steps[1].func_name # pf.read.result[2].steps[2].func_name

(***************************************************************************)
(* C16  Duplicate registration                                             *)
(***************************************************************************)
\* C16: registering a tool under a name the registry already holds leaves
\* the registry unchanged: the tool first registered under that name stays
\* bound to it.  (ReRegister is the only registration under a present name.)
C16_DuplicateLeavesRegistry == [][tools' = tools]_vars

\* add_tool has run for the name "increment" a second time and the name is
\* now bound to the second implementation
C16_Witness ==
    /\ tools["increment"].impl = 2
    /\ pc = "idle"
    /\ hist.n > 0 /\ hist.startTools["increment"].impl = 1

(***************************************************************************)
(* C17  Method-style tool without a bound receiver                         *)
(***************************************************************************)
\* C17: with a method-style tool registered and no receiver bound, an
\* invocation fails before any candidate is fetched, any tool is executed or
\* the agent is called: it never reaches the agent, never executes a step and
\* never returns a hit or a miss.
C17_UnboundReceiverFails ==
    ((\E name \in DOMAIN tools : tools[name].is_method) /\ method_dep = None) =>
        /\ pc # "agent"
        /\ hist.agentCalls = <<>>
        /\ hist.executed = <<>>
        /\ result \notin {"hit", "miss"}

\* no receiver bound, and yet a recorded step (whose first literal argument
\* is the receiver the agent used) has been replayed and the invocation
\* returned a hit
C17_Witness ==
    /\ method_dep = None /\ tools["increment"].is_method
    /\ Ended /\ result = "hit" /\ hist.n = 2
    /\ Len(hist.executed) = 1
    /\ hist.executed[1].args[1] = EnvObj

(***************************************************************************)
(* C18  No agent set                                                       *)
(***************************************************************************)
\* C18: an Engine on which no agent was set fails at setup: an invocation
\* never gets as far as the fallback (the miss is never counted, no Recorder
\* is started, the missing agent is never called).
C18_MissingAgentFailsAtSetup == pc # "agent" /\ hist.err # "TypeError"

\* the first invocation went through the candidate lookup, started the
\* fallback and failed on calling the missing agent
C18_Witness ==
    /\ Ended /\ hist.n = 1 /\ result = "raised" /\ hist.err = "TypeError"
    /\ hist.agentRuns = 1 /\ hist.executed = <<>>
    /\ storage = hist.startStorage

(***************************************************************************)
(* C19  The agent raises during fallback                                   *)
(***************************************************************************)
AgentRaised == Ended /\ result = "raised" /\ hist.err = "AgentError"

\* C19: when the agent raises during fallback the invocation ends with that
\* error and has stored nothing: every key holds as many trajectories as when
\* the invocation started, and at any time each stored trajectory is the
\* record of an agent run that returned.
C19_AgentErrorStoresNothing ==
    /\ AgentRaised => \A k \in Keys : Len(storage[k]) = Len(hist.startStorage[k])
    /\ \A k \in Keys :
          /\ Len(storage[k]) = Len(rec[k])
          /\ \A i \in 1..Len(storage[k]) : Len(storage[k][i].steps) = Len(rec[k][i].calls)

\* the agent raised after one recorded tool call, with a trajectory already
\* stored under the key and pruned in this invocation
C19_Witness ==
    /\ AgentRaised
    /\ Len(hist.agentCalls) = 1 /\ Len(recorder.steps) = 1
    /\ Len(hist.startStorage[hist.key]) = 1
    /\ Len(hist.pruned) = 1

(***************************************************************************)
(* C20  Pruning keeps the position                                         *)
(***************************************************************************)
\* candidate c has a step at position k (0-based) whose pre-check fails on
\* the live environment
FailsAt(c, k) ==
    LET t == storage[Key(call.skill)][c] IN
    /\ Len(t.steps) > k
    /\ tools[t.steps[k + 1].func_name].pre_check
    /\ t.steps[k + 1].pre_check_snapshot # None
    /\ t.steps[k + 1].pre_check_snapshot # env
\* the candidates a step of the Replayer removed
Dropped == Range(candidates) \ Range(candidates')

\* one call of get_next_step, seen from outside
ReplayerStep ==
    LET key == Key(call.skill)
        k == Len(prefix)
    IN  /\ \* the candidates removed are the leading ones, each failed at k
           \E j \in 0..Len(candidates) :
              /\ candidates' = SubSeq(candidates, j + 1, Len(candidates))
              /\ \A i \in 1..j : FailsAt(candidates[i], k)
        /\ \* a current candidate that fails at k is removed
           (candidates # <<>> /\ FailsAt(Head(candidates), k)) => Head(candidates) \in Dropped
        /\ \* failed_runs grows by one for each removed candidate, for no other
           \A c \in 1..Len(storage[key]) :
              storage'[key][c].failed_runs =
                 storage[key][c].failed_runs + (IF c \in Dropped THEN 1 ELSE 0)
        /\ \* the step returned is the one at position k of the candidate now current
           pc' = "exec" =>
              /\ candidates' # <<>>
              /\ step' = storage[key][Head(candidates')].steps[k + 1]
              /\ prefix' = Append(prefix, step')

\* C20: a candidate whose step at position k fails its pre-check gets
\* failed_runs + 1 and is removed, and the next-ranked candidate is tried at
\* the same k; within an invocation the prefix only grows, by exactly one per
\* returned step, and the steps executed are those at positions 1, 2, ... in
\* turn, each once.
C20_PruneKeepsPosition ==
    [][ /\ pc = "replay" => ReplayerStep
        /\ pc # "idle" =>
              /\ Len(prefix') = Len(prefix) + (IF pc = "replay" /\ pc' = "exec" THEN 1 ELSE 0)
              /\ SubSeq(prefix', 1, Len(prefix)) = prefix
              /\ Len(hist'.pruned) >= Len(hist.pruned)
              /\ \A i \in (Len(hist.pruned) + 1)..Len(hist'.pruned) :
                    hist'.pruned[i].k = Len(prefix)
              /\ Len(hist'.executed) = Len(hist.executed) + (IF pc = "exec" /\ pc' = "replay" THEN 1 ELSE 0)
              /\ SubSeq(hist'.executed, 1, Len(hist.executed)) = hist.executed
              /\ \A i \in 1..Len(hist'.executed) : hist'.executed[i].pos = i
      ]_vars

\* a candidate was pruned at position 1 after its first step had been
\* executed, and the next candidate went on from its second step
C20_Witness ==
    /\ pc = "exec" /\ Len(prefix) = 2
    /\ Len(hist.executed) = 1
    /\ Len(hist.pruned) = 1
    /\ hist.pruned[1].k = 1
    /\ hist.executed[1].owner = hist.pruned[1].traj
    /\ Head(candidates) # hist.pruned[1].traj
    /\ StoredNow[hist.pruned[1].traj].failed_runs =
          StoredAtStart[hist.pruned[1].traj].failed_runs + 1

(***************************************************************************)
(* C21  Marking a trajectory successful                                    *)
(***************************************************************************)
\* the stored trajectories of the invocation's key whose success bookkeeping
\* differs from what it was when the invocation started
MarkedSinceStart ==
    {i \in 1..Len(StoredAtStart) :
        \/ StoredNow[i].successful_runs # StoredAtStart[i].successful_runs
        \/ StoredNow[i].last_successful_run # StoredAtStart[i].last_successful_run}

\* C21: a trajectory is marked successful only as the current candidate with
\* as many steps as the prefix; an invocation that returns hit has marked
\* exactly one trajectory, once (successful_runs + 1, last_successful_run =
\* now); before that, and in an invocation that returns miss, none is marked.
C21_MarkedOncePerHit ==
    hist.n > 0 =>
       /\ (Ended /\ result = "hit") =>
             \E i \in 1..Len(StoredAtStart) :
                /\ MarkedSinceStart \subseteq {i}
                /\ StoredNow[i].successful_runs = StoredAtStart[i].successful_runs + 1
                /\ StoredNow[i].last_successful_run = clock
                /\ candidates # <<>> /\ Head(candidates) = i
                /\ Len(StoredNow[i].steps) = Len(prefix)
       /\ ~(Ended /\ result = "hit") => MarkedSinceStart = {}
       /\ \A key \in Keys \ {hist.key} :
             \A i \in 1..Len(storage[key]) :
                /\ storage[key][i].successful_runs = hist.startStorage[key][i].successful_runs
                /\ storage[key][i].last_successful_run =
                      hist.startStorage[key][i].last_successful_run

\* a hit on the second-ranked of two stored trajectories, after one step was
\* replayed and the first-ranked was pruned: only the second is marked
C21_Witness ==
    /\ Ended /\ result = "hit"
    /\ Len(StoredAtStart) = 2
    /\ Len(hist.pruned) = 1
    /\ Len(hist.executed) = 1
    /\ MarkedSinceStart = {Head(candidates)}
    /\ StoredNow[Head(candidates)].successful_runs = 2

(***************************************************************************)
(* C22  Every tool call of the agent is recorded                           *)
(***************************************************************************)
\* C22: while the agent runs, the Recorder holds exactly one Step per call
\* the agent has made to the tool wrapper, in the order of the calls, whether
\* or not the tool declares a check.
C22_EveryCallRecorded ==
    pc = "agent" =>
       /\ Len(recorder.steps) = Len(hist.agentCalls)
       /\ \A i \in 1..Len(recorder.steps) :
             recorder.steps[i].func_name = hist.agentCalls[i].func_name

\* the agent has called the tool registered without a pre-check twice and
\* the Recorder holds no Step
C22_Witness ==
    /\ pc = "agent"
    /\ ~tools["increment"].pre_check
    /\ Len(hist.agentCalls) = 2
    /\ recorder.present /\ recorder.steps = <<>>

(***************************************************************************)
(* C23  Snapshots are taken around the call                                *)
(***************************************************************************)
\* the Steps a step of the behaviour appended to a sequence of Steps
Appended(old, new) == SubSeq(new, Len(old) + 1, Len(new))

\* C23: the pre-check snapshot of a recorded Step is the value captured
\* before the tool's underlying call ran, and a post-check snapshot is the
\* value captured after it returned.  For the wrapper of chat.py: the Step
\* appended by a call carries the environment before the call.  For the
\* wrapper of engine.py: the Step with a pre-check snapshot carries the value
\* before the call, the Step with a post-check snapshot the value after it.
C23_SnapshotsAroundCall ==
    [][ /\ (pc = "agent" /\ Len(recorder'.steps) > Len(recorder.steps)) =>
              /\ Len(recorder'.steps) = Len(recorder.steps) + 1
              /\ SubSeq(recorder'.steps, 1, Len(recorder.steps)) = recorder.steps
              /\ recorder'.steps[Len(recorder'.steps)].pre_check_snapshot
                    = capture(env, <<>>, <<>>)
        /\ (pf.stage = "two_phase" /\ pf.recording /\ pf'.calls = pf.calls + 1) =>
              /\ SubSeq(pf'.steps, 1, Len(pf.steps)) = pf.steps
              /\ Len(Appended(pf.steps, pf'.steps)) =
                    (IF pf.pre_check THEN 1 ELSE 0) + (IF pf.post_check THEN 1 ELSE 0)
              /\ \A i \in 1..Len(Appended(pf.steps, pf'.steps)) :
                    LET st == Appended(pf.steps, pf'.steps)[i] IN
                    /\ pre_check_snapshot(st) # None =>
                          pre_check_snapshot(st) = capture(pf.val, <<>>, <<>>)
                    /\ post_check_snapshot(st) # None =>
                          post_check_snapshot(st) = capture(pf'.val, <<>>, <<>>)
                    /\ pre_check_snapshot(st) # None \/ post_check_snapshot(st) # None
      ]_vars

\* both wrappers have recorded a call that changed the environment: the
\* snapshots before and after differ
C23_Witness ==
    /\ pc = "agent" /\ Len(recorder.steps) = 2
    /\ recorder.steps[1].pre_check_snapshot # recorder.steps[2].pre_check_snapshot
    /\ pf.stage = "two_phase" /\ pf.recording /\ pf.pre_check /\ pf.post_check
    /\ Len(pf.steps) = 2
    /\ pre_check_snapshot(pf.steps[1]) = 0 /\ post_check_snapshot(pf.steps[2]) = 1

(***************************************************************************)
(* C24  Steps of a checked tool carry their snapshot                       *)
(***************************************************************************)
\* C24: every Step of every stored trajectory whose tool declares a
\* pre-check carries a pre-check snapshot, and every step executed during
\* replay had its check evaluated.
C24_CheckedStepsCarrySnapshot ==
    /\ \A key \in Keys : \A i \in 1..Len(storage[key]) :
          \A j \in 1..Len(storage[key][i].steps) :
             tools[storage[key][i].steps[j].func_name].pre_check =>
                storage[key][i].steps[j].pre_check_snapshot # None
    /\ \A i \in 1..Len(hist.executed) :
          tools[hist.executed[i].func_name].pre_check => hist.executed[i].check.done

\* a hit from an environment other than the recording's: the step of the
\* checked tool, stored without a snapshot, was executed unvalidated
C24_Witness ==
    /\ Ended /\ result = "hit"
    /\ tools["increment"].pre_check
    /\ Len(hist.executed) = 1
    /\ ~hist.executed[1].check.done
    /\ StoredNow[Head(candidates)].steps[1].pre_check_snapshot = None
    /\ hist.startEnv # rec[hist.key][Head(candidates)].start

(***************************************************************************)
(* C25  strip classifies every argument                                    *)
(***************************************************************************)
\* the stored Arg `a` is the classification of the value v under params ps
Classified(ps, v, a) ==
    IF \E i \in 1..Len(ps) : ps[i][2] = v
    THEN /\ a.kind = "PARAM"
         /\ \E i \in 1..Len(ps) :
               /\ ps[i][2] = v
               /\ \A h \in 1..(i - 1) : ps[h][2] # v
               /\ a.key = ps[i][1]
    ELSE a.kind = "STATIC" /\ a.value = v
\* the positional arguments strip looks at
StrippedFrom ==
    IF pf.method_dep # None THEN SubSeq(pf.args, 2, Len(pf.args)) ELSE pf.args

\* C25: strip succeeds for every call, and stores each positional and keyword
\* argument as a reference to the first params key holding an equal value, or
\* else as a literal holding the value.
C25_StripClassifies ==
    (pf.stage \in {"stripped", "injected", "raised"}) =>
        /\ ~(pf.stage = "raised" /\ pf.err = "ValueError")
        /\ Len(pf.sargs) = Len(StrippedFrom)
        /\ \A i \in 1..Len(pf.sargs) : Classified(pf.params, StrippedFrom[i], pf.sargs[i])
        /\ Len(pf.skwargs) = Len(pf.kwargs)
        /\ \A i \in 1..Len(pf.skwargs) :
              /\ pf.skwargs[i][1] = pf.kwargs[i][1]
              /\ Classified(pf.params, pf.kwargs[i][2], pf.skwargs[i][2])

\* a function-style call with the keyword argument n = None under params
\* {"n": 1}: None equals no parameter value, and strip raises
C25_Witness ==
    /\ pf.stage = "raised" /\ pf.err = "ValueError"
    /\ ~pf.is_method /\ pf.method_dep = None
    /\ pf.args = <<>> /\ pf.kwargs = << <<"n", None>> >>
    /\ pf.params = << <<"n", 1>> >>

(***************************************************************************)
(* C26  The receiver is handled for method-style tools only                *)
(***************************************************************************)
\* C26: strip leaves out the first positional argument exactly for a
\* method-style tool, and inject puts the receiver in front exactly for a
\* method-style tool; for a function-style tool all positional arguments are
\* kept and nothing is put in front, whether or not a receiver is bound.
C26_ReceiverOnlyForMethods ==
    /\ pf.stage \in {"stripped", "injected"} =>
          Len(pf.sargs) = Len(pf.args) - (IF pf.is_method THEN 1 ELSE 0)
    /\ pf.stage = "injected" =>
          /\ Len(pf.out_args) = Len(pf.sargs) + (IF pf.is_method THEN 1 ELSE 0)
          /\ pf.is_method => pf.out_args[1] = pf.method_dep

\* a function-style call f(1) with a receiver bound on the Engine: strip
\* stored no positional argument and inject gave back f(receiver)
C26_Witness ==
    /\ pf.stage = "injected"
    /\ ~pf.is_method /\ pf.method_dep = EnvObj
    /\ pf.args = <<1>> /\ pf.kwargs = <<>>
    /\ pf.sargs = <<>>
    /\ pf.out_args = <<EnvObj>>

(***************************************************************************)
(* C27  The params of an invocation                                        *)
(***************************************************************************)
\* C27: during an invocation the params the RuntimeContext strips and
\* injects with are the params passed to that invocation, empty when none
\* were passed.
C27_ParamsOfThisInvocation ==
    (hist.n > 0 /\ pc # "idle") => params = call.params.dict

\* an invocation without params replayed a step recorded as a reference to
\* the parameter n and executed it with the value 1 of an earlier invocation
C27_Witness ==
    /\ Ended /\ result = "hit"
    /\ ~call.params.given
    /\ params = << <<"n", 1>> >>
    /\ Len(hist.executed) = 1
    /\ hist.executed[1].args = <<EnvObj, 1>>
    /\ StoredNow[Head(candidates)].steps[1].args[1].kind = "PARAM"

(***************************************************************************)
(* C28  What a miss stores                                                 *)
(***************************************************************************)
\* the Step the Recorder makes of the j-th call of the agent run r
StepOfCall(r, j) ==
    LET st == strip(r.params, method_dep, r.calls[j].args, r.calls[j].kwargs)
    IN  [func_name |-> r.calls[j].func_name, args |-> st.args, kwargs |-> st.kwargs]

C29_OnlyBookkeeping ==
    [][ /\ \A key \in Keys :
              /\ Len(storage'[key]) >= Len(storage[key])
              /\ \A i \in 1..Len(storage[key]) :
                    storage'[key][i].steps = storage[key][i].steps
        /\ (pc = "idle" /\ pc' = "replay") =>
              /\ Len(candidates') = Len(storage[Key(call'.skill)])
              /\ Range(candidates') = 1..Len(storage[Key(call'.skill)])
      ]_vars

\* an invocation starts with a candidate that an earlier invocation pruned
C29_Witness ==
    /\ hist.n = 3 /\ pc = "replay" /\ prefix = <<>> /\ hist.pruned = <<>>
    /\ Len(StoredNow) = 2
    /\ Len(candidates) = 2
    /\ StoredNow[1].failed_runs = 1
    /\ StoredNow[1].steps # <<>>
    /\ Len(StoredNow[1].steps) = Len(rec[hist.key][1].calls)

(***************************************************************************)
(* C30  The position stays within the candidate examined                   *)
(***************************************************************************)
\* C30: whenever get_next_step examines a candidate, the prefix is not longer
\* than the candidate, so steps[k] is read only when it exists: the current
\* candidate is never shorter than the prefix and no invocation ends with
\* the IndexError of that read.
C30_PositionWithinCandidate ==
    /\ hist.err # "IndexError"
    /\ (hist.n > 0 /\ candidates # <<>>) =>
          Len(prefix) <= Len(storage[Key(call.skill)][Head(candidates)].steps)

\* a candidate was pruned at position 1, after its first step was executed,
\* and the next candidate has no step at that position: IndexError
C30_Witness ==
    /\ Ended /\ result = "raised" /\ hist.err = "IndexError"
    /\ Len(prefix) = 1 /\ Len(hist.executed) = 1
    /\ Len(hist.pruned) = 1 /\ hist.pruned[1].k = 1
    /\ candidates # <<>>
    /\ Len(StoredNow[Head(candidates)].steps) = 0

(***************************************************************************)
(* C31  The replay phase ends                                              *)
(***************************************************************************)
\* C31: the replay phase of every invocation ends, after finitely many
\* steps, in the hit return or in the agent fallback.
C31_ReplayEndsInHitOrFallback ==
    (pc = "replay") ~> (pc = "agent" \/ (pc = "idle" /\ result = "hit"))

\* the replay phase ended in neither: the invocation left with the
\* IndexError of get_next_step, the agent was not called
C31_Witness ==
    /\ Ended /\ result = "raised" /\ hist.err = "IndexError"
    /\ hist.agentRuns = 0 /\ hist.marked = 0
    /\ exhausted = FALSE

(***************************************************************************)
(* C32  The counters of a stored trajectory                                *)
(***************************************************************************)
\* C32: every stored trajectory has successful_runs >= 1 and failed_runs >= 0,
\* no step lowers a counter, and from the start of an invocation on,
\* failed_runs of a trajectory has grown by at most 1 and successful_runs by
\* exactly 1 for at most one trajectory, by 0 for the others.
C32_Counters ==
    [][ /\ \A key \in Keys : \A i \in 1..Len(storage'[key]) :
              /\ storage'[key][i].successful_runs >= 1
              /\ storage'[key][i].failed_runs >= 0
        /\ \A key \in Keys : \A i \in 1..Len(storage[key]) :
              /\ storage'[key][i].successful_runs >= storage[key][i].successful_runs
              /\ storage'[key][i].failed_runs >= storage[key][i].failed_runs
        /\ \A key \in Keys :
              LET old == hist'.startStorage[key]
                  grown == {i \in 1..Len(old) :
                               storage'[key][i].successful_runs # old[i].successful_runs}
              IN  /\ \A i \in 1..Len(old) :
                        storage'[key][i].failed_runs - old[i].failed_runs \in {0, 1}
                  /\ Cardinality(grown) <= 1
                  /\ \A i \in grown :
                        storage'[key][i].successful_runs = old[i].successful_runs + 1
      ]_vars

\* one invocation pruned one trajectory and marked another: the first has
\* failed_runs + 1, the second successful_runs + 1
C32_Witness ==
    /\ Ended /\ result = "hit" /\ Len(StoredAtStart) = 2
    /\ Len(hist.pruned) = 1 /\ hist.marked # 0 /\ hist.marked # hist.pruned[1].traj
    /\ StoredNow[hist.pruned[1].traj].failed_runs =
          StoredAtStart[hist.pruned[1].traj].failed_runs + 1
    /\ StoredNow[hist.marked].successful_runs = StoredAtStart[hist.marked].successful_runs + 1
    /\ StoredNow[hist.marked].failed_runs = StoredAtStart[hist.marked].failed_runs

(***************************************************************************)
(* C33  What a hit executed                                                *)
(***************************************************************************)
\* C33: on a hit the steps executed are, in order, exactly the steps of the
\* trajectory that was marked successful, and none of them was taken from a
\* candidate pruned during the invocation.
C33_HitExecutesMarkedTrajectory ==
    (Ended /\ result = "hit") =>
        /\ prefix = StoredNow[hist.marked].steps
        /\ Len(hist.executed) = Len(StoredNow[hist.marked].steps)
        /\ \A i \in 1..Len(hist.executed) :
              /\ hist.executed[i].owner = hist.marked
              /\ \A j \in 1..Len(hist.pruned) : hist.executed[i].owner # hist.pruned[j].traj

\* a hit whose first executed step was the first step of a candidate pruned
\* at position 1, and differs from the first step of the trajectory marked
C33_Witness ==
    /\ Ended /\ result = "hit" /\ hist.marked # 0
    /\ Len(hist.executed) = 2 /\ Len(hist.pruned) = 1
    /\ hist.executed[1].owner = hist.pruned[1].traj
    /\ hist.executed[2].owner = hist.marked
    /\ prefix[1] # StoredNow[hist.marked].steps[1]

(***************************************************************************)
(* C34  What a miss executed                                               *)
(***************************************************************************)
\* C34: an invocation that returns miss executed no cached step; the agent
\* started from the environment the invocation began in.
C34_MissExecutesNoCachedStep ==
    (Ended /\ result = "miss") =>
        /\ Len(hist.executed) = 0
        /\ hist.agentStart = hist.startEnv

\* a miss whose replay executed one cached step that changed the environment
\* before every candidate was pruned and the agent was run
C34_Witness ==
    /\ Ended /\ result = "miss" /\ hist.agentRuns = 1
    /\ Len(hist.executed) = 1 /\ Len(hist.pruned) >= 1
    /\ hist.executed[1].pre = hist.startEnv
    /\ hist.executed[1].post # hist.startEnv
    /\ hist.agentStart = hist.executed[1].post

(***************************************************************************)
(* C35  Zero-step trajectories                                             *)
(***************************************************************************)
\* C35: an agent run that recorded no Step stores a trajectory with zero
\* steps; and whenever a zero-step trajectory is the current candidate at
\* k = 0, it is marked successful and the invocation returns a hit with no
\* tool executed and no agent called.
C35_ZeroStepTrajectory ==
    [][ LET key == Key(call.skill)
        IN  /\ (pc = "agent" /\ pc' = "idle" /\ recorder.steps = <<>>) =>
                  /\ Len(storage'[key]) = Len(storage[key]) + 1
                  /\ storage'[key][Len(storage'[key])].steps = <<>>
            /\ (/\ pc = "replay" /\ Len(prefix) = 0
                /\ candidates' # <<>>
                /\ storage[key][Head(candidates')].steps = <<>>) =>
                  /\ pc' = "idle" /\ result' = "hit"
                  /\ env' = env
                  /\ hist'.executed = <<>>
                  /\ hist'.agentRuns = 0
                  /\ hist'.marked = Head(candidates')
                  /\ storage'[key][Head(candidates')].successful_runs =
                        storage[key][Head(candidates')].successful_runs + 1
      ]_vars

\* a hit on a zero-step trajectory that an earlier agent run of the same key
\* stored: nothing executed, no agent, environment untouched
C35_Witness ==
    /\ Ended /\ result = "hit" /\ hist.n >= 2
    /\ hist.marked # 0 /\ StoredNow[hist.marked].steps = <<>>
    /\ \E i \in 1..Len(rec[hist.key]) : rec[hist.key][i].calls = <<>>
    /\ hist.executed = <<>> /\ hist.agentRuns = 0
    /\ env = hist.startEnv
    /\ StoredNow[hist.marked].successful_runs =
          StoredAtStart[hist.marked].successful_runs + 1

(***************************************************************************)
(* C36  Overlapping invocations                                            *)
(***************************************************************************)
\* C36: when an agent invokes the Engine again during fallback, the outer
\* invocation resumes with its own params and its own Recorder, and an agent
\* that returns always ends its invocation as a miss that stores exactly the
\* steps of that agent run.
C36_InvocationsIsolated ==
    [][ LET key == Key(call.skill)
        IN  /\ (pf.depth = 1 /\ pf'.depth = 0 /\ pc' = "agent") =>
                  /\ params' = pf.outer.params
                  /\ recorder' = pf.outer.recorder
            /\ (pc = "agent" /\ pc' = "idle" /\ hist'.agentCalls = hist.agentCalls) =>
                  /\ result' = "miss"
                  /\ Len(storage'[key]) = Len(storage[key]) + 1
                  /\ Len(storage'[key][Len(storage'[key])].steps) = Len(hist.agentCalls)
      ]_vars

\* an outer fallback whose agent called the tool, invoked the Engine (a miss
\* that stored its own run), called the tool again and returned: the outer
\* invocation ends in AttributeError and stores nothing
C36_Witness ==
    /\ Ended /\ pf.depth = 0 /\ pf.count = 1
    /\ result = "raised" /\ hist.err = "AttributeError"
    /\ pf.inner.result = "miss"
    /\ Len(hist.agentCalls) = 2
    /\ ~recorder.present
    /\ Len(StoredNow) = Len(StoredAtStart) + (IF pf.inner.hist.key = hist.key THEN 1 ELSE 0)

(***************************************************************************)
(* C37  Errors in the execution phase of the two-phase Engine               *)
(***************************************************************************)
\* the step the execution phase handles next has a tool with pre_check and
\* no snapshot, or a snapshot the current capture does not compare to
PreCheckFails(e) ==
    LET st == e.selected[e.idx]
        tool == Tools_get(e.tools, st.func_name, st.func_hash)
    IN  /\ tool.pre_check
        /\ \/ pre_check_snapshot(st) = None
           \/ ~compare_time(capture_time(e.now), pre_check_snapshot(st))

\* the same for the post-check of the step, captured at time `after`
PostCheckFails(e, after) ==
    LET st == e.selected[e.idx]
        tool == Tools_get(e.tools, st.func_name, st.func_hash)
    IN  /\ tool.post_check
        /\ \/ post_check_snapshot(st) = None
           \/ ~compare_time(capture_time(after), post_check_snapshot(st))

\* C37: in the execution phase of the two-phase Engine a step with a missing
\* snapshot, a failed pre-check or a failed post-check makes __call__ raise:
\* the step is not retried, the agent is not called, no trajectory is stored
\* for the invocation, and what was executed stays executed.
C37_ExecutionFailureRaises ==
    [][ pf.mode = "exec" =>
          /\ PreCheckFails(pf) =>
                /\ pf'.result = "raised" /\ pf'.mode = "idle"
                /\ pf'.executed = pf.executed /\ pf'.now = pf.now
          /\ (pf'.executed = pf.executed + 1 /\ PostCheckFails(pf, pf'.now)) =>
                /\ pf'.result = "raised" /\ pf'.mode = "idle"
          /\ pf'.result = "raised" =>
                /\ pf'.trajectories = pf.startDb
                /\ pf'.agentRuns = 0
                /\ pf'.idx = pf.idx /\ pf'.selected = pf.selected
                /\ pf'.executed >= pf.executed /\ pf'.now >= pf.now
      ]_vars

\* a selected two-step trajectory whose second step failed its pre-check
\* after the first had been executed
C37_Witness ==
    /\ pf.stage = "engine" /\ pf.op = "exec"
    /\ pf.result = "raised" /\ pf.err = "no longer safe"
    /\ pf.sel > 0 /\ pf.idx = 2 /\ pf.executed = 1
    /\ pf.trajectories = pf.startDb
    /\ pf.agentRuns = 0 /\ pf.mode = "idle"

(***************************************************************************)
(* C38  The selection phase of the two-phase Engine                         *)
(***************************************************************************)
\* every step of the trajectory has a pre-check snapshot that the capture
\* taken at time now compares to, with a tool that still resolves
PassesInFull(traj, ts, now) ==
    \A i \in 1..Len(traj.steps) :
       /\ pre_check_snapshot(traj.steps[i]) # None
       /\ Tools_get(ts, traj.steps[i].func_name, traj.steps[i].func_hash) # NoTool
       /\ compare_time(capture_time(now), pre_check_snapshot(traj.steps[i]))

\* the stored trajectories of the task that pass in full, by store position
PassingCandidates(e, task, now) ==
    {i \in 1..Len(e.trajectories) :
        e.trajectories[i].task = task /\ PassesInFull(e.trajectories[i], e.tools, now)}

\* C38: the selection phase of the two-phase Engine executes no tool; it
\* selects the first stored trajectory of the task, in store order, all of
\* whose steps pass their pre-check against the state at the start of the
\* invocation; when none passes in full the agent is invoked and the
\* invocation returns False.
C38_SelectionPhase ==
    [][ /\ (pf.mode = "idle" /\ pf'.n = pf.n + 1 /\ pf'.finalized) =>
              LET passing == PassingCandidates(pf, pf'.task, pf'.now) IN
              /\ pf'.executed = 0
              /\ passing = {} =>
                    /\ pf'.mode = "agent" /\ pf'.agentRuns = 1 /\ pf'.sel = 0
                    /\ pf'.trajectories = pf.trajectories
              /\ passing # {} =>
                    /\ pf'.sel \in passing
                    /\ \A i \in passing : pf'.sel <= i
                    /\ pf'.selected = pf.trajectories[pf'.sel].steps
                    /\ pf'.agentRuns = 0
                    /\ pf'.mode = IF pf'.selected = <<>> THEN "idle" ELSE "exec"
        /\ (pf.mode = "agent" /\ pf'.mode = "idle") =>
              /\ pf'.result = "miss" /\ pf'.executed = 0
      ]_vars

\* the second stored trajectory of the task was selected, the first one no
\* longer passing, and nothing has been executed yet
C38_Witness ==
    /\ pf.stage = "engine" /\ pf.op = "call" /\ pf.mode = "exec"
    /\ pf.sel = 2 /\ pf.executed = 0 /\ Len(pf.selected) >= 1
    /\ pf.trajectories[1].task = pf.task
    /\ pf.trajectories[1].steps # <<>>
    /\ ~PassesInFull(pf.trajectories[1], pf.tools, pf.now)
    /\ PassesInFull(pf.trajectories[2], pf.tools, pf.now)

(***************************************************************************)
(* C39  The two-phase Engine is frozen by finalize                          *)
(***************************************************************************)
\* what the builder methods configure
Configuration(e) == <<e.agent, e.ctx_instance, e.tools, e.finalized>>

\* the conditions under which finalize refuses
NotReady(e) ==
    \/ Tools_len(e.tools) = 0
    \/ e.agent = None
    \/ e.ctx_instance = None /\ has_methods(e.tools)

\* C39: once finalize has succeeded, set_agent, set_context, function and
\* method raise and leave agent, context and registry unchanged; a finalize
\* that fails (no tool, no agent, method tools without context) leaves the
\* Engine unfinalized, unchanged and still modifiable.
C39_FrozenByFinalize ==
    [][ pf'.ops = pf.ops + 1 =>
          /\ (pf.finalized /\ pf'.op \in {"set_agent", "set_context", "function", "method"}) =>
                /\ pf'.result = "raised"
                /\ Configuration(pf') = Configuration(pf)
          /\ (pf'.op = "finalize" /\ NotReady(pf)) =>
                /\ pf'.result = "raised"
                /\ ~pf'.finalized
                /\ Configuration(pf') = Configuration(pf)
          /\ (pf'.op = "finalize" /\ ~NotReady(pf)) =>
                /\ pf'.result = "ok" /\ pf'.finalized
          /\ (~pf.finalized /\ pf'.op \in {"set_agent", "set_context"}) =>
                /\ pf'.result = "ok"
                /\ pf'.agent # None \/ pf'.ctx_instance # None
      ]_vars

\* set_agent was refused on an Engine that has been finalized and used: the
\* agent of the configuration is still in place
C39_Witness ==
    /\ pf.stage = "engine" /\ pf.op = "set_agent"
    /\ pf.result = "raised" /\ pf.err = "finalized"
    /\ pf.finalized /\ pf.agent = 1 /\ pf.n >= 1
    /\ Len(pf.trajectories) >= 1

(***************************************************************************)
(* C40  DuckDB.add_trajectory is atomic                                     *)
(***************************************************************************)
\* the ids a trajectory can get in one behaviour
DuckIds == 1..(MaxAdds + MaxFailedAdds + 1)

\* C40: when an INSERT of add_trajectory fails the error reaches the caller
\* and the store reads as before the call: no row of the failed trajectory
\* or of its steps is left, get_trajectory and fetch_trajectories return
\* what they returned before, and later reads find exactly the trajectories
\* whose add_trajectory returned.
C40_AddIsAtomic ==
    [][ /\ pf'.failed = pf.failed + 1 =>
              /\ pf'.db.trajectories = pf.db.trajectories
              /\ pf'.db.steps = pf.db.steps
              /\ pf'.added = pf.added
              /\ \A id \in DuckIds : get_trajectory(pf'.db, id) = get_trajectory(pf.db, id)
              /\ \A task \in DuckTasks :
                    fetch_trajectories(pf'.db, task) = fetch_trajectories(pf.db, task)
        /\ (pf.read.kind = "none" /\ pf'.read.kind = "get") =>
              (pf'.read.result.found <=>
                  \E i \in 1..Len(pf.added) : pf.added[i].id = pf'.read.arg)
        /\ (pf.read.kind = "none" /\ pf'.read.kind = "fetch") =>
              Len(pf'.read.result) =
                 Cardinality({i \in 1..Len(pf.added) :
                                 pf.added[i].trajectory.task = pf'.read.arg})
      ]_vars

\* a trajectory was stored, then an add_trajectory failed at its second
\* step, and a later get_trajectory of the id it had drawn finds nothing
\* while the rows stored before are still there
C40_Witness ==
    /\ pf.failed = 1 /\ pf.last_failed.at = 2
    /\ Len(pf.added) = 1 /\ pf.added[1].id < pf.last_failed.id
    /\ Len(pf.added[1].trajectory.steps) = 2
    /\ pf.read.kind = "get" /\ pf.read.arg = pf.last_failed.id
    /\ ~pf.read.result.found
    /\ Cardinality(pf.db.steps) = 2 /\ Cardinality(pf.db.trajectories) = 1

====
